---- MODULE Spec2Model ----
(***************************************************************************)
(* Model of the NETVEXA RAG back end: the completion-provider fallback     *)
(* wrapper (backend/llm_providers.py), the embedding cache wrapper         *)
(* (backend/embedding_providers.py) and the ingestion and answer pipelines *)
(* of backend/rag/production_rag_engine.py.                                *)
(***************************************************************************)
EXTENDS Integers, Sequences, FiniteSets, TLC

(***************************************************************************)
(* Bounds of the model.                                                    *)
(***************************************************************************)
\* largest number of fragments a provider stream yields
MaxFragments == 2
\* largest number of texts handed to one embed_texts call
MaxBatch == 2
\* largest number of chunks the chunker cuts a document into
MaxChunks == 11
\* largest number of results the hybrid search hands back
MaxHits == 4

(***************************************************************************)
(* Generic helpers.                                                        *)
(***************************************************************************)
Range(s) == {s[i] : i \in 1..Len(s)}

IsPrefix(s, t) == Len(s) <= Len(t) /\ \A i \in 1..Len(s) : s[i] = t[i]

VARIABLES
    settings,            \* config.settings: LLM_PROVIDER, ENABLE_FALLBACK, ENABLE_CACHE
    primary_provider,    \* LLMProviderWithFallback.primary_provider (provider type)
    fallback_providers,  \* LLMProviderWithFallback.fallback_providers (ordered list)
    llm_pc,              \* position of the caller inside complete() / stream_complete()
    llm_will,            \* what each provider slot does when asked in this call
    llm_idx,             \* position of the for loop over fallback_providers
    llm_invoked,         \* provider slots asked so far in this call (0 = primary)
    llm_result,          \* what the call handed to its caller
    stream_delivered     \* fragments the caller of stream_complete() has received

VARIABLES
    cache_client,        \* CachedEmbeddingProvider.cache_client is set
    cache,               \* content of the cache behind cache_client, by key
    emb_pc,              \* position of the caller inside embed_text()
    emb_call,            \* the embedding call (or cache event) in progress or last finished
    emb_prev             \* summary of the call or event before emb_call

VARIABLES
    ing_pc,              \* position inside ingest_document()
    ing_result,          \* the DocumentIngestionResult being filled
    ing_chunks,          \* len(chunks): the chunks are numbered 1..ing_chunks
    ing_i,               \* loop variable i of `for i in range(0, len(chunks), batch_size)`
    ing_failed_step,     \* the step before the batches that raised, if any
    ing_counted_ok,      \* chunks that were added to successful_chunks
    ing_counted_failed,  \* chunks that were added to failed_chunks
    ing_batches_done,    \* values of i whose batch was processed
    ing_batch_failed,    \* values of i whose batch failed as a whole
    ing_embed_fail       \* chunks whose embedding failed in the latest batch

ingVars == <<ing_pc, ing_result, ing_chunks, ing_i, ing_failed_step,
             ing_counted_ok, ing_counted_failed, ing_batches_done,
             ing_batch_failed, ing_embed_fail>>

VARIABLES
    ans_pc,              \* position inside generate_response()
    ans_history,         \* conversation_history is not None
    ans_results,         \* len(search_results)
    ans_failed,          \* the steps of this call that raised
    ans_final,           \* final_response: which branch built it
    ans_response         \* the ChatResponse handed to the caller

ansVars == <<ans_pc, ans_history, ans_results, ans_failed, ans_final,
             ans_response>>

VARIABLES
    hyb_pc,              \* position inside HybridSearchEngine.__init__ / search()
    hyb_config,          \* the (vector_weight, keyword_weight) handed to __init__, in tenths
    hyb_weights,         \* self.vector_weight and self.keyword_weight, as fractions
    hyb_in,              \* the arguments of the search() in progress and what the queries meet
    hyb_vector_results,  \* vector_results of search()
    hyb_keyword_results, \* keyword_results of search()
    hyb_out              \* what search() handed to its caller

hybVars == <<hyb_pc, hyb_config, hyb_weights, hyb_in, hyb_vector_results,
             hyb_keyword_results, hyb_out>>

VARIABLES
    bm_pc,               \* position of a caller of _calculate_bm25_score
    bm_pool,             \* all_documents: the candidate pool scored
    bm_scores            \* the score of each document of the pool

bmVars == <<bm_pc, bm_pool, bm_scores>>

VARIABLES
    chk_pc,              \* position of a caller of chunker.chunk(text, metadata)
    chk_in,              \* the chunker (strategy and sizes) and the text handed to it
    chk_out              \* the list of chunks returned

chkVars == <<chk_pc, chk_in, chk_out>>

VARIABLES
    ctx_pc,              \* position of a caller of _build_context
    ctx_in,              \* search_results (the length of each result_text) and max_length
    ctx_out              \* context_parts, the parts joined into the context

ctxVars == <<ctx_pc, ctx_in, ctx_out>>

VARIABLES
    db_agents,           \* table agents: the owner (user_id) of each row
    db_conversations,    \* table conversations: the rows, each with its agent_id
    db_messages,         \* table messages: the rows, each with its conversation_id
    db_documents,        \* table knowledge_documents: the rows, each with its agent_id
    api_response,        \* the last response of the agent routes
    api_deleted          \* the agents a DELETE of their owner has answered 200 for

delVars == <<db_agents, db_conversations, db_messages, db_documents,
             api_response, api_deleted>>

VARIABLES
    ps_pc,               \* position of a caller of ProductionRAGEngine.search
    ps_in,               \* k, use_reranking and what the store holds for the query
    ps_run               \* the limits of the two queries and the length of each list

psVars == <<ps_pc, ps_in, ps_run>>

VARIABLES
    rr_pc,               \* position of a caller of ReRanker.rerank
    rr_in,               \* the results handed to rerank and top_k
    rr_out               \* the list rerank returns

rrVars == <<rr_pc, rr_in, rr_out>>

VARIABLES
    rt_pc,               \* position of a call through the retrying providers
    rt_call,             \* the operation called and the providers it may ask, in order
    rt_cur,              \* position in rt_call.chain of the provider being asked
    rt_attempt,          \* attempts the provider being asked has made in this call
    rt_log               \* every attempt of the call: position in the chain and outcome

rtVars == <<rt_pc, rt_call, rt_cur, rt_attempt, rt_log>>

\* the components next to the two wrappers and the two pipelines
extVars == <<hybVars, bmVars, chkVars, ctxVars, delVars,
            psVars,
            rrVars,
            rtVars>>

embVars == <<cache_client, cache, emb_pc, emb_call, emb_prev>>

llmVars == <<settings, primary_provider, fallback_providers, llm_pc, llm_will,
             llm_idx, llm_invoked, llm_result, stream_delivered>>

vars == <<llmVars, embVars, ingVars, ansVars, extVars>>

\* what a step of the completion wrapper leaves alone
otherThanLLM == <<embVars, ingVars, ansVars, extVars>>

\* what a step of the embedding wrapper leaves alone
otherThanEmb == <<llm_pc, llm_will, llm_idx, llm_invoked, llm_result,
                  stream_delivered, primary_provider, fallback_providers, ingVars,
                  ansVars, extVars>>

\* what a step of the ingestion pipeline leaves alone
otherThanIng == <<llmVars, embVars, ansVars, extVars>>

\* what a step of generate_response outside the completion call leaves alone
otherThanAns == <<llmVars, embVars, ingVars, extVars>>

\* what a step of the components in extVars leaves alone
otherThanExt == <<llmVars, embVars, ingVars, ansVars>>

\* search() has handed nothing to a caller
NoOutcome == [kind |-> "none", docs |-> <<>>]

\* no search in progress
NoSearch == [store |-> <<>>, k |-> 0, keyword_k |-> 0, query_tokens |-> 0,
             vector_fails |-> FALSE, keyword_fails |-> FALSE]

\* the search engine as ProductionRAGEngine.__init__ builds it, at rest
HybIdle ==
    /\ hyb_pc = "idle"
    /\ hyb_config = <<7, 3>>
    /\ hyb_weights = [vector_weight |-> <<7, 10>>, keyword_weight |-> <<3, 10>>]
    /\ hyb_in = NoSearch
    /\ hyb_vector_results = <<>>
    /\ hyb_keyword_results = <<>>
    /\ hyb_out = NoOutcome

\* nobody is scoring a pool
BmIdle ==
    /\ bm_pc = "idle"
    /\ bm_pool = <<>>
    /\ bm_scores = <<>>

\* no text handed to a chunker
NoText == [strategy |-> "none", chunk_size |-> 0, chunk_overlap |-> 0,
           min_chunk_size |-> 0, sep |-> 0, text |-> <<>>]

\* nobody is chunking
ChkIdle ==
    /\ chk_pc = "idle"
    /\ chk_in = NoText
    /\ chk_out = <<>>

\* no search results handed to _build_context
NoResults == [results |-> <<>>, max_length |-> 0]

\* nobody is building a context
CtxIdle ==
    /\ ctx_pc = "idle"
    /\ ctx_in = NoResults
    /\ ctx_out = <<>>

\* no request answered yet
NoRequest == [op |-> "none", user |-> "none", agent_id |-> "none", status |-> 0]

\* the store with no row, and no request made
DbEmpty ==
    /\ db_agents = <<>>
    /\ db_conversations = {}
    /\ db_messages = {}
    /\ db_documents = {}
    /\ api_response = NoRequest
    /\ api_deleted = {}

\* no query handed to ProductionRAGEngine.search
NoQuery == [k |-> 0, use_reranking |-> FALSE, with_embedding |-> 0, with_token |-> 0]

\* no query run
NoRun == [vector_limit |-> 0, keyword_limit |-> 0, vector_results |-> 0,
          keyword_results |-> 0, to_reranker |-> -1, returned |-> -1]

\* nobody is searching through the engine
PsIdle ==
    /\ ps_pc = "idle"
    /\ ps_in = NoQuery
    /\ ps_run = NoRun

\* top_k=None, the default of rerank
TopKOmitted == [given |-> FALSE, value |-> 0]

\* no list handed to the re-ranker
NoRerank == [results |-> <<>>, top_k |-> TopKOmitted]

\* nobody is re-ranking
RrIdle ==
    /\ rr_pc = "idle"
    /\ rr_in = NoRerank
    /\ rr_out = <<>>

\* no call through a provider
NoProviderCall == [op |-> "none", chain |-> <<>>, enable_fallback |-> FALSE]

\* no provider is being asked
RtIdle ==
    /\ rt_pc = "idle"
    /\ rt_call = NoProviderCall
    /\ rt_cur = 0
    /\ rt_attempt = 0
    /\ rt_log = <<>>

ExtIdle == HybIdle /\ BmIdle /\ ChkIdle /\ CtxIdle /\ DbEmpty /\ PsIdle /\ RrIdle /\ RtIdle

\* what a step of the search engine leaves alone
otherThanHyb == <<otherThanExt, bmVars, chkVars, ctxVars, delVars,
    psVars,
    rrVars,
    rtVars>>

\* what a step of the scoring of a pool leaves alone
otherThanBm == <<otherThanExt, hybVars, chkVars, ctxVars, delVars,
    psVars,
    rrVars,
    rtVars>>

\* what a step of a chunker leaves alone
otherThanChk == <<otherThanExt, hybVars, bmVars, ctxVars, delVars,
    psVars,
    rrVars,
    rtVars>>

\* what a step of _build_context leaves alone
otherThanCtx == <<otherThanExt, hybVars, bmVars, chkVars, delVars,
    psVars,
    rrVars,
    rtVars>>

\* what a request to the agent routes leaves alone
otherThanDel == <<otherThanExt, hybVars, bmVars, chkVars, ctxVars,
    psVars,
    rrVars,
    rtVars>>

\* what a step of ProductionRAGEngine.search leaves alone
otherThanPs == <<otherThanExt, hybVars, bmVars, chkVars, ctxVars, delVars,
    rrVars,
    rtVars>>

\* what a step of the re-ranker leaves alone
otherThanRr == <<otherThanExt, hybVars, bmVars, chkVars, ctxVars, delVars, psVars,
    rtVars>>

\* what a step of a provider call leaves alone
otherThanRt == <<otherThanExt, hybVars, bmVars, chkVars, ctxVars, delVars, psVars, rrVars>>

(***************************************************************************)
(* config.py and LLMProviderFactory                                        *)
(***************************************************************************)
\* class LLMProvider(str, Enum)
LLMProviderEnum == {"anthropic", "google", "openai"}

\* the order in which get_available_providers() appends
ProviderOrder == <<"anthropic", "google", "openai">>

\* LLMProviderFactory.get_available_providers: the providers whose API key
\* is set, in the fixed order, followed by the mock provider
get_available_providers(keys) ==
    SelectSeq(ProviderOrder, LAMBDA p : p \in keys) \o <<"mock">>

\* LLMProviderFactory.create_provider succeeds for a provider with a key;
\* the mock provider needs the module test_llm_provider to be importable
CanCreate(p, mock_importable) == p # "mock" \/ mock_importable

\* _initialize_providers: the primary is the configured provider when it is
\* available, else the first available one
InitPrimary(configured, available) ==
    IF configured \in Range(available) THEN configured ELSE available[1]

\* _initialize_providers: every available provider other than the CONFIGURED
\* one becomes a fallback, those whose construction raises being skipped
InitFallbacks(configured, available, mock_importable) ==
    SelectSeq(available,
              LAMBDA p : p # configured /\ CanCreate(p, mock_importable))

NoResult == [kind |-> "none", slot |-> 0, error |-> "none"]

TextOf(slot) == [kind |-> "text", slot |-> slot, error |-> "none"]

Raised(err) == [kind |-> "error", slot |-> 0, error |-> err]

NumFallbacks == Len(fallback_providers)

Slots == 0..NumFallbacks

(***************************************************************************)
(* LLMProviderWithFallback.complete                                        *)
(***************************************************************************)
\* what complete() does once the primary provider has answered or raised
AfterPrimary(outcome, enable_fallback, nfb) ==
    IF outcome = "ok" THEN "return"
    ELSE IF ~enable_fallback THEN "reraise"
    ELSE IF nfb = 0 THEN "all_failed"
    ELSE "fallback"

AfterFallbackStopsAtFirstFailure(outcome, idx, nfb) ==
    IF outcome = "ok" THEN "return" ELSE "all_failed"

AfterFallbackKeepsGoing(outcome, idx, nfb) ==
    IF idx < nfb THEN "next"
    ELSE IF outcome = "ok" THEN "return" ELSE "all_failed"

\* what the for loop does once fallback number idx has answered or raised
AfterFallback(outcome, idx, nfb) ==
    IF outcome = "ok" THEN "return"
    ELSE IF idx < nfb THEN "next"
    ELSE "all_failed"

\* the caller enters complete(); will[s] is what provider slot s does when it
\* is asked during this call
CompleteBegin(will) ==
    /\ llm_pc = "idle"
    /\ llm_pc' = "primary"
    /\ llm_will' = will
    /\ llm_idx' = 0
    /\ llm_invoked' = <<>>
    /\ llm_result' = NoResult
    /\ stream_delivered' = <<>>
    /\ UNCHANGED <<settings, primary_provider, fallback_providers>>

\* await self.primary_provider.complete(prompt) and the except branch up to
\* the first fallback
CompletePrimary ==
    /\ llm_pc = "primary"
    /\ UNCHANGED otherThanLLM
    /\ llm_invoked' = Append(llm_invoked, 0)
    /\ LET d == AfterPrimary(llm_will[0], settings.ENABLE_FALLBACK, NumFallbacks)
       IN  /\ llm_pc' = CASE d = "return" -> "returned"
                          [] d = "fallback" -> "fallback"
                          [] OTHER -> "raised"
           /\ llm_result' = CASE d = "return" -> TextOf(0)
                              [] d = "reraise" -> Raised("primary_error")
                              [] d = "all_failed" -> Raised("all_failed")
                              [] OTHER -> llm_result
           /\ llm_idx' = IF d = "fallback" THEN 1 ELSE llm_idx
    /\ UNCHANGED <<settings, primary_provider, fallback_providers, llm_will,
                   stream_delivered>>

\* one turn of `for provider in self.fallback_providers`
CompleteFallback ==
    /\ llm_pc = "fallback"
    /\ UNCHANGED otherThanLLM
    /\ llm_invoked' = Append(llm_invoked, llm_idx)
    /\ LET d == AfterFallback(llm_will[llm_idx], llm_idx, NumFallbacks)
       IN  /\ llm_pc' = CASE d = "return" -> "returned"
                          [] d = "next" -> "fallback"
                          [] OTHER -> "raised"
           /\ llm_result' = CASE d = "return" -> TextOf(llm_idx)
                              [] d = "all_failed" -> Raised("all_failed")
                              [] OTHER -> llm_result
           /\ llm_idx' = IF d = "next" THEN llm_idx + 1 ELSE llm_idx
    /\ UNCHANGED <<settings, primary_provider, fallback_providers, llm_will,
                   stream_delivered>>

(***************************************************************************)
(* LLMProviderWithFallback.stream_complete                                 *)
(***************************************************************************)
\* the fragment number k of the stream of provider slot s
Fragment(s, k) == <<s, k>>

OnStreamFailureRollsBack(delivered) ==
    [pc |-> "stream_raised", delivered |-> <<>>, result |-> Raised("stream_error")]

\* the except branch of stream_complete: log and re-raise
OnStreamFailure(delivered) ==
    [pc |-> "stream_raised", delivered |-> delivered,
     result |-> Raised("stream_error")]

\* the caller starts iterating stream_complete(): the primary is asked
StreamBegin ==
    /\ llm_pc = "idle"
    /\ UNCHANGED otherThanLLM
    /\ llm_pc' = "streaming"
    /\ llm_invoked' = <<0>>
    /\ llm_result' = NoResult
    /\ stream_delivered' = <<>>
    /\ llm_idx' = 0
    /\ UNCHANGED <<settings, primary_provider, fallback_providers, llm_will>>

\* async for chunk in primary: yield chunk
StreamYield ==
    /\ llm_pc = "streaming"
    /\ UNCHANGED otherThanLLM
    /\ Len(stream_delivered) < MaxFragments
    /\ stream_delivered' =
           Append(stream_delivered, Fragment(0, Len(stream_delivered) + 1))
    /\ UNCHANGED <<settings, primary_provider, fallback_providers, llm_pc,
                   llm_will, llm_idx, llm_invoked, llm_result>>

\* the primary's stream is exhausted
StreamEnd ==
    /\ llm_pc = "streaming"
    /\ UNCHANGED otherThanLLM
    /\ llm_pc' = "stream_done"
    /\ UNCHANGED <<settings, primary_provider, fallback_providers, llm_will,
                   llm_idx, llm_invoked, llm_result, stream_delivered>>

\* the primary's stream raises, before or after some fragments
StreamFail ==
    /\ llm_pc = "streaming"
    /\ UNCHANGED otherThanLLM
    /\ LET o == OnStreamFailure(stream_delivered)
       IN  /\ llm_pc' = o.pc
           /\ stream_delivered' = o.delivered
           /\ llm_result' = o.result
    /\ UNCHANGED <<settings, primary_provider, fallback_providers, llm_will,
                   llm_idx, llm_invoked>>

\* the caller has taken the result (or the exception); the wrapper is free
\* for the next call
LLMCallOver ==
    /\ llm_pc \in {"returned", "raised", "stream_done", "stream_raised"}
    /\ UNCHANGED otherThanLLM
    /\ llm_pc' = "idle"
    /\ UNCHANGED <<settings, primary_provider, fallback_providers, llm_will,
                   llm_idx, llm_invoked, llm_result, stream_delivered>>

(***************************************************************************)
(* CachedEmbeddingProvider                                                 *)
(***************************************************************************)
\* texts handed to the embedding provider
Texts == {"a", "b"}

\* vectors the underlying provider may answer with
Vectors == {"v1", "v2"}

None == "none"

\* hashlib.md5(text.encode()).hexdigest()
Md5(text) == <<"md5", text>>

\* _get_cache_key: the key is made of the provider class and the text's hash
get_cache_key(text) == <<"embedding", "GoogleEmbeddingProvider", Md5(text)>>

CacheKeys == {get_cache_key(t) : t \in Texts}

\* json.dumps(embedding) and json.loads(cached)
JsonDumps(v) == <<"json", v>>

JsonLoads(s) == s[2]

\* the guard `not self.cache_client or not settings.ENABLE_CACHE`, negated
CacheActive == cache_client /\ settings.ENABLE_CACHE

CacheLookupNeverHits(c, text, get_fails) ==
    IF get_fails THEN "fail" ELSE "miss"

\* try: cached = await cache_client.get(key); if cached: ...; except: warn
CacheLookup(c, text, get_fails) ==
    IF get_fails THEN "fail"
    ELSE IF c[get_cache_key(text)] # None THEN "hit"
    ELSE "miss"

EmbedTextReturnLostOnStoreError(embedding, set_status) ==
    IF set_status = "fail" THEN None ELSE embedding

\* embed_text returns the provider's embedding after the try around setex
EmbedTextReturn(embedding, set_status) == embedding

NoCall == [kind |-> "none"]

OneCall(text) ==
    [kind |-> "one", text |-> text, get |-> "none", prov |-> "none",
     provvec |-> None, set |-> "none", result |-> None]

\* what is remembered of the call or event before the current one
Summary(call) == IF call.kind = "one" THEN call ELSE [kind |-> call.kind]

\* the caller enters embed_text(text)
EmbedTextBegin ==
    /\ emb_pc = "idle"
    /\ \E text \in Texts : emb_call' = OneCall(text)
    /\ emb_pc' = IF CacheActive THEN "get" ELSE "provider"
    /\ UNCHANGED <<cache_client, cache, emb_prev, settings>>
    /\ UNCHANGED otherThanEmb

\* the try block around cache_client.get
EmbedTextGet ==
    /\ emb_pc = "get"
    /\ \E get_fails \in BOOLEAN :
         LET st == CacheLookup(cache, emb_call.text, get_fails)
         IN  /\ emb_call' =
                    [emb_call EXCEPT
                       !.get = st,
                       !.result = IF st = "hit"
                                  THEN JsonLoads(cache[get_cache_key(emb_call.text)])
                                  ELSE None]
             /\ emb_pc' = IF st = "hit" THEN "returned" ELSE "provider"
    /\ UNCHANGED <<cache_client, cache, emb_prev, settings>>
    /\ UNCHANGED otherThanEmb

\* embedding = await self.provider.embed_text(text)
EmbedTextProvider ==
    /\ emb_pc = "provider"
    /\ \E out \in Vectors \cup {"fail"} :
         IF out = "fail"
         THEN /\ emb_call' = [emb_call EXCEPT !.prov = "fail", !.result = "raised"]
              /\ emb_pc' = "raised"
         ELSE /\ emb_call' =
                     [emb_call EXCEPT
                        !.prov = "ok", !.provvec = out,
                        !.result = IF CacheActive THEN None ELSE out]
              /\ emb_pc' = IF CacheActive THEN "setex" ELSE "returned"
    /\ UNCHANGED <<cache_client, cache, emb_prev, settings>>
    /\ UNCHANGED otherThanEmb

\* the try block around cache_client.setex, then return embedding
EmbedTextSetex ==
    /\ emb_pc = "setex"
    /\ \E set_fails \in BOOLEAN :
         LET st == IF set_fails THEN "fail" ELSE "ok"
         IN  /\ cache' = IF set_fails THEN cache
                         ELSE [cache EXCEPT ![get_cache_key(emb_call.text)] =
                                                JsonDumps(emb_call.provvec)]
             /\ emb_call' =
                    [emb_call EXCEPT
                       !.set = st,
                       !.result = EmbedTextReturn(emb_call.provvec, st)]
    /\ emb_pc' = "returned"
    /\ UNCHANGED <<cache_client, emb_prev, settings>>
    /\ UNCHANGED otherThanEmb

\* an entry outlives cache_ttl (7 days) and is dropped by the cache
CacheExpire ==
    /\ emb_pc = "idle"
    /\ \E k \in CacheKeys :
         /\ cache[k] # None
         /\ cache' = [cache EXCEPT ![k] = None]
    /\ emb_prev' = [kind |-> "expire"]
    /\ UNCHANGED <<cache_client, emb_pc, emb_call, settings>>
    /\ UNCHANGED otherThanEmb

\* the first loop of embed_texts: one cache read per text
GetStatuses(c, texts, get_fail) ==
    [i \in 1..Len(texts) |-> CacheLookup(c, texts[i], i \in get_fail)]

\* embeddings after the first loop: the cached vector or None
CachedEmbeddings(c, texts, get) ==
    [i \in 1..Len(texts) |->
        IF get[i] = "hit" THEN JsonLoads(c[get_cache_key(texts[i])]) ELSE None]

\* the variant in which every text is sent to the provider
UncachedIndicesAll(get) == [i \in 1..Len(get) |-> i]

\* uncached_indices after the first loop
UncachedIndices(get) ==
    SelectSeq([i \in 1..Len(get) |-> i], LAMBDA i : get[i] # "hit")

\* for i, embedding in zip(uncached_indices, new_embeddings): embeddings[i] = embedding
MergeNew(embeddings, unc, new) ==
    [i \in 1..Len(embeddings) |->
        IF \E j \in 1..Len(unc) : j <= Len(new) /\ unc[j] = i
        THEN new[CHOOSE j \in 1..Len(unc) : j <= Len(new) /\ unc[j] = i]
        ELSE embeddings[i]]

\* the setex of the second loop, from position j on; set_fail holds the text
\* positions whose write raises
RECURSIVE StoreNew(_, _, _, _, _, _)
StoreNew(c, texts, unc, new, set_fail, j) ==
    IF j > Len(unc) \/ j > Len(new) THEN c
    ELSE StoreNew(IF unc[j] \in set_fail THEN c
                  ELSE [c EXCEPT ![get_cache_key(texts[unc[j]])] = JsonDumps(new[j])],
                  texts, unc, new, set_fail, j + 1)

TextLists == UNION {[1..n -> Texts] : n \in 0..MaxBatch}

ManyCall(texts, get, unc, prov, new, set_fail, result) ==
    [kind |-> "many", texts |-> texts, get |-> get, unc |-> unc, prov |-> prov,
     new |-> new, set_fail |-> set_fail, result |-> result,
     raised |-> (prov = "fail")]

\* embed_texts(texts) with the cache switched off: the provider's answer
EmbedTextsUncached ==
    /\ emb_pc = "idle"
    /\ ~CacheActive
    /\ \E texts \in TextLists, prov \in {"ok", "fail"} :
         \E new \in IF prov = "ok" THEN [1..Len(texts) -> Vectors] ELSE {<<>>} :
            /\ emb_call' = ManyCall(texts, [i \in 1..Len(texts) |-> "none"],
                                    [i \in 1..Len(texts) |-> i], prov, new, {}, new)
            /\ emb_pc' = IF prov = "ok" THEN "returned" ELSE "raised"
    /\ emb_prev' = NoCall
    /\ UNCHANGED <<cache_client, cache, settings>>
    /\ UNCHANGED otherThanEmb

\* embed_texts(texts) through the cache: read each text, send the uncached
\* ones to the provider in one call, merge and write each new vector
EmbedTextsCached ==
    /\ emb_pc = "idle"
    /\ CacheActive
    /\ \E texts \in TextLists :
       \E get_fail \in SUBSET (1..Len(texts)) :
         LET get == GetStatuses(cache, texts, get_fail)
             unc == UncachedIndices(get)
             embeddings == CachedEmbeddings(cache, texts, get)
         IN  \E prov \in IF unc = <<>> THEN {"none"} ELSE {"ok", "fail"} :
             \E new \in IF prov = "ok" THEN [1..Len(unc) -> Vectors] ELSE {<<>>} :
             \E set_fail \in IF prov = "ok" THEN SUBSET Range(unc) ELSE {{}} :
                /\ emb_call' = ManyCall(texts, get, unc, prov, new, set_fail,
                                        IF prov = "fail" THEN <<>>
                                        ELSE MergeNew(embeddings, unc, new))
                /\ cache' = IF prov = "ok"
                            THEN StoreNew(cache, texts, unc, new, set_fail, 1)
                            ELSE cache
                /\ emb_pc' = IF prov = "fail" THEN "raised" ELSE "returned"
    /\ emb_prev' = NoCall
    /\ UNCHANGED <<cache_client, settings>>
    /\ UNCHANGED otherThanEmb

\* the caller has taken the vectors (or the exception); the call becomes the
\* previous one
EmbCallOver ==
    /\ emb_pc \in {"returned", "raised"}
    /\ emb_pc' = "idle"
    /\ emb_prev' = Summary(emb_call)
    /\ emb_call' = NoCall
    /\ UNCHANGED <<cache_client, cache, settings>>
    /\ UNCHANGED otherThanEmb

EmbIdle ==
    /\ cache = [k \in CacheKeys |-> None]
    /\ emb_pc = "idle"
    /\ emb_call = NoCall
    /\ emb_prev = NoCall

(***************************************************************************)
(* ProductionRAGEngine.ingest_document and _process_chunk_batch            *)
(***************************************************************************)
\* batch_size = 10 in ingest_document
batch_size == 10

\* DocumentIngestionResult.__init__
NewIngestionResult ==
    [total_documents |-> 0, total_chunks |-> 0, successful_chunks |-> 0,
     failed_chunks |-> 0, errors |-> <<>>]

\* the variant in which a slice starts one chunk early
BatchOfOverlapping(i, n) == {c \in 1..n : i <= c /\ c <= i + batch_size}

\* chunks[i:i + batch_size], as chunk numbers
BatchOf(i, n) == {c \in 1..n : i < c /\ c <= i + batch_size}

\* range(0, len(chunks), batch_size)
BatchStarts(n) == {i \in 0..n : i < n /\ i % batch_size = 0}

\* GoogleEmbeddingProvider.embed_texts: asyncio.gather(*tasks) without
\* return_exceptions raises as soon as one embed_text task has raised
GatherRaises(item_fail) == item_fail # {}

OnIngestErrorReraises(res, e) ==
    [pc |-> "raised", result |-> res]

\* `except Exception as e` of ingest_document: the error is recorded and the
\* result is returned
OnIngestError(res, e) ==
    [pc |-> "returned", result |-> [res EXCEPT !.errors = Append(@, e)]]

OnBatchErrorCountsOne(res, batch) ==
    [res EXCEPT !.failed_chunks = @ + 1,
                !.errors = Append(@, <<"Batch processing error", 0>>)]

\* `except Exception as e` of _process_chunk_batch: the whole batch is
\* counted as failed; what the loop over the chunks counted before stays
OnBatchError(res, batch) ==
    [res EXCEPT !.failed_chunks = @ + Cardinality(batch),
                !.errors = Append(@, <<"Batch processing error", 0>>)]

\* the loop over zip(chunks, embeddings) inside `async for db in get_db()`,
\* from chunk c on; add_fail holds the chunks whose document cannot be built
\* or added
RECURSIVE AddChunks(_, _, _, _, _)
AddChunks(res, i, c, last, add_fail) ==
    IF c > last THEN res
    ELSE AddChunks(
           IF c \in add_fail
           THEN [res EXCEPT !.failed_chunks = @ + 1,
                            !.errors = Append(@, <<"Chunk", c - i - 1>>)]
           ELSE [res EXCEPT !.successful_chunks = @ + 1],
           i, c + 1, last, add_fail)

\* where ingest_document goes after the batch at i
AfterBatch(i, n) == IF i + batch_size < n THEN "embed" ELSE "store_meta"

\* the caller enters ingest_document()
IngestBegin ==
    /\ ing_pc = "idle"
    /\ ing_pc' = "parse"
    /\ ing_result' = NewIngestionResult
    /\ ing_chunks' = 0
    /\ ing_i' = 0
    /\ ing_failed_step' = "none"
    /\ ing_counted_ok' = {}
    /\ ing_counted_failed' = {}
    /\ ing_batches_done' = {}
    /\ ing_batch_failed' = {}
    /\ ing_embed_fail' = {}
    /\ UNCHANGED otherThanIng

\* parsed_doc = parse_document(...); result.total_documents = 1
IngestParse ==
    /\ ing_pc = "parse"
    /\ \E ok \in BOOLEAN :
         IF ok
         THEN /\ ing_result' = [ing_result EXCEPT !.total_documents = 1]
              /\ ing_pc' = "chunk"
              /\ UNCHANGED ing_failed_step
         ELSE LET o == OnIngestError(ing_result, <<"parse error", 0>>)
              IN  /\ ing_result' = o.result
                  /\ ing_pc' = o.pc
                  /\ ing_failed_step' = "parse"
    /\ UNCHANGED <<ing_chunks, ing_i, ing_counted_ok, ing_counted_failed,
                   ing_batches_done, ing_batch_failed, ing_embed_fail>>
    /\ UNCHANGED otherThanIng

\* _determine_content_type, get_chunker, chunker.chunk;
\* result.total_chunks = len(chunks)
IngestChunk ==
    /\ ing_pc = "chunk"
    /\ \/ \E n \in 0..MaxChunks :
            /\ ing_chunks' = n
            /\ ing_result' = [ing_result EXCEPT !.total_chunks = n]
            /\ ing_pc' = IF n = 0 THEN "store_meta" ELSE "embed"
            /\ UNCHANGED ing_failed_step
       \/ LET o == OnIngestError(ing_result, <<"chunk error", 0>>)
          IN  /\ ing_result' = o.result
              /\ ing_pc' = o.pc
              /\ ing_failed_step' = "chunk"
              /\ UNCHANGED ing_chunks
    /\ UNCHANGED <<ing_i, ing_counted_ok, ing_counted_failed,
                   ing_batches_done, ing_batch_failed, ing_embed_fail>>
    /\ UNCHANGED otherThanIng

\* _process_chunk_batch up to `embeddings = await embed_texts(texts)`;
\* item_fail holds the chunks of the batch whose embedding raises
BatchEmbed ==
    /\ ing_pc = "embed"
    /\ LET batch == BatchOf(ing_i, ing_chunks)
       IN  \E item_fail \in SUBSET batch :
             /\ ing_embed_fail' = item_fail
             /\ IF GatherRaises(item_fail)
                THEN /\ ing_result' = OnBatchError(ing_result, batch)
                     /\ ing_counted_failed' = ing_counted_failed \cup batch
                     /\ ing_batches_done' = ing_batches_done \cup {ing_i}
                     /\ ing_batch_failed' = ing_batch_failed \cup {ing_i}
                     /\ ing_pc' = AfterBatch(ing_i, ing_chunks)
                     /\ ing_i' = IF AfterBatch(ing_i, ing_chunks) = "embed"
                                 THEN ing_i + batch_size ELSE ing_i
                ELSE /\ ing_pc' = "persist"
                     /\ UNCHANGED <<ing_result, ing_counted_failed,
                                    ing_batches_done, ing_batch_failed, ing_i>>
    /\ UNCHANGED <<ing_chunks, ing_failed_step, ing_counted_ok>>
    /\ UNCHANGED otherThanIng

\* the rest of _process_chunk_batch: open a session, add one document per
\* chunk, commit
BatchPersist ==
    /\ ing_pc = "persist"
    /\ LET batch == BatchOf(ing_i, ing_chunks)
           last == IF ing_i + batch_size < ing_chunks
                   THEN ing_i + batch_size ELSE ing_chunks
       IN  \E session_ok \in BOOLEAN :
           \E add_fail \in IF session_ok THEN SUBSET batch ELSE {{}} :
           \E commit_ok \in IF session_ok THEN BOOLEAN ELSE {FALSE} :
             LET added == IF session_ok
                          THEN AddChunks(ing_result, ing_i, ing_i + 1, last, add_fail)
                          ELSE ing_result
             IN  /\ ing_result' = IF commit_ok THEN added
                                  ELSE OnBatchError(added, batch)
                 /\ ing_counted_ok' =
                        IF session_ok THEN ing_counted_ok \cup (batch \ add_fail)
                        ELSE ing_counted_ok
                 /\ ing_counted_failed' =
                        IF commit_ok THEN ing_counted_failed \cup add_fail
                        ELSE ing_counted_failed \cup batch
                 /\ ing_batch_failed' =
                        IF commit_ok THEN ing_batch_failed
                        ELSE ing_batch_failed \cup {ing_i}
    /\ ing_batches_done' = ing_batches_done \cup {ing_i}
    /\ ing_pc' = AfterBatch(ing_i, ing_chunks)
    /\ ing_i' = IF AfterBatch(ing_i, ing_chunks) = "embed"
                THEN ing_i + batch_size ELSE ing_i
    /\ UNCHANGED <<ing_chunks, ing_failed_step, ing_embed_fail>>
    /\ UNCHANGED otherThanIng

\* _store_document_metadata, whose own try/except absorbs a cache failure;
\* then processing_time is set and the result returned
IngestStoreMeta ==
    /\ ing_pc = "store_meta"
    /\ ing_pc' = "returned"
    /\ UNCHANGED <<ing_result, ing_chunks, ing_i, ing_failed_step,
                   ing_counted_ok, ing_counted_failed, ing_batches_done,
                   ing_batch_failed, ing_embed_fail>>
    /\ UNCHANGED otherThanIng

\* the caller has taken the result
IngestOver ==
    /\ ing_pc \in {"returned", "raised"}
    /\ ing_pc' = "idle"
    /\ UNCHANGED <<ing_result, ing_chunks, ing_i, ing_failed_step,
                   ing_counted_ok, ing_counted_failed, ing_batches_done,
                   ing_batch_failed, ing_embed_fail>>
    /\ UNCHANGED otherThanIng

IngIdle ==
    /\ ing_pc = "idle"
    /\ ing_result = NewIngestionResult
    /\ ing_chunks = 0
    /\ ing_i = 0
    /\ ing_failed_step = "none"
    /\ ing_counted_ok = {}
    /\ ing_counted_failed = {}
    /\ ing_batches_done = {}
    /\ ing_batch_failed = {}
    /\ ing_embed_fail = {}

(***************************************************************************)
(* ProductionRAGEngine.search and generate_response                        *)
(***************************************************************************)
\* settings.TOP_K_RETRIEVAL, the k of search() when none is given
TOP_K_RETRIEVAL == 3

NoResponse == [content |-> "none", has_error |-> FALSE]

\* the type of final_response: process_ai_response returns a Dict, and the
\* plain-text fallback is the dict {"type": "rich_message", ...}
TypeOfFinal(final) == "dict"

ChatResponseAcceptsAnything(t) == TRUE

\* models.ChatResponse declares `content: str`: validation rejects a content
\* that is not a string
ChatResponseAccepts(t) == t = "str"

OnAnswerErrorReraises(e) == [pc |-> "raised", response |-> NoResponse]

\* `except Exception as e` of generate_response: a ChatResponse whose content
\* is the apology string and whose metadata is {'error': str(e)}
OnAnswerError(e) ==
    IF ChatResponseAccepts("str")
    THEN [pc |-> "returned",
          response |-> [content |-> "apology", has_error |-> TRUE]]
    ELSE [pc |-> "raised", response |-> NoResponse]

\* `except Exception` of search(): the error is logged and [] returned
SearchOnError == 0

\* results[:k] after rerank(query, results, k)
TopK(r, k) == IF r < k THEN r ELSE k

\* the caller enters generate_response(); search() starts
AnswerBegin ==
    /\ ans_pc = "idle"
    /\ llm_pc = "idle"
    /\ ans_pc' = "embed_query"
    /\ ans_history' \in BOOLEAN
    /\ ans_results' = 0
    /\ ans_failed' = {}
    /\ ans_final' = "none"
    /\ ans_response' = NoResponse
    /\ UNCHANGED otherThanAns

\* search(): query_embedding = await self.embedding_provider.embed_text(query)
AnswerEmbedQuery ==
    /\ ans_pc = "embed_query"
    /\ \E ok \in BOOLEAN :
         IF ok
         THEN /\ ans_pc' = "hybrid"
              /\ UNCHANGED <<ans_results, ans_failed>>
         ELSE /\ ans_pc' = "context"
              /\ ans_results' = SearchOnError
              /\ ans_failed' = ans_failed \cup {"embed"}
    /\ UNCHANGED <<ans_history, ans_final, ans_response>>
    /\ UNCHANGED otherThanAns

\* search(): results = await self.search_engine.search(...) inside get_db()
AnswerHybrid ==
    /\ ans_pc = "hybrid"
    /\ \/ \E r \in 0..MaxHits :
            /\ ans_results' = r
            /\ ans_pc' = IF r > 0 THEN "rerank" ELSE "context"
            /\ UNCHANGED ans_failed
       \/ /\ ans_results' = SearchOnError
          /\ ans_pc' = "context"
          /\ ans_failed' = ans_failed \cup {"hybrid"}
    /\ UNCHANGED <<ans_history, ans_final, ans_response>>
    /\ UNCHANGED otherThanAns

\* search(): results = await self.reranker.rerank(query, results, k);
\* return results[:k]
AnswerRerank ==
    /\ ans_pc = "rerank"
    /\ \E ok \in BOOLEAN :
         IF ok
         THEN /\ ans_results' = TopK(ans_results, TOP_K_RETRIEVAL)
              /\ UNCHANGED ans_failed
         ELSE /\ ans_results' = SearchOnError
              /\ ans_failed' = ans_failed \cup {"rerank"}
    /\ ans_pc' = "context"
    /\ UNCHANGED <<ans_history, ans_final, ans_response>>
    /\ UNCHANGED otherThanAns

\* _build_context, _get_agent_config (its own try/except falls back to the
\* default configuration) and _build_prompt
AnswerContext ==
    /\ ans_pc = "context"
    /\ \E config_ok \in BOOLEAN :
         ans_failed' = IF config_ok THEN ans_failed
                       ELSE ans_failed \cup {"agent_config"}
    /\ ans_pc' = "complete"
    /\ UNCHANGED <<ans_history, ans_results, ans_final, ans_response>>
    /\ UNCHANGED otherThanAns

\* response_text = await self.llm_provider.complete(prompt): the call enters
\* LLMProviderWithFallback.complete
AnswerCallLLM ==
    /\ ans_pc = "complete"
    /\ \E will \in [Slots -> {"ok", "fail"}] : CompleteBegin(will)
    /\ ans_pc' = "await_llm"
    /\ UNCHANGED <<ans_history, ans_results, ans_failed, ans_final, ans_response>>
    /\ UNCHANGED <<embVars, ingVars, extVars>>

\* complete() has returned a text or raised
AnswerAfterLLM ==
    /\ ans_pc = "await_llm"
    /\ llm_pc \in {"returned", "raised"}
    /\ llm_pc' = "idle"
    /\ IF llm_pc = "returned"
       THEN /\ ans_pc' = "rich"
            /\ UNCHANGED <<ans_failed, ans_response>>
       ELSE LET o == OnAnswerError("complete")
            IN  /\ ans_pc' = o.pc
                /\ ans_response' = o.response
                /\ ans_failed' = ans_failed \cup {"complete"}
    /\ UNCHANGED <<ans_history, ans_results, ans_final>>
    /\ UNCHANGED <<settings, primary_provider, fallback_providers, llm_will,
                   llm_idx, llm_invoked, llm_result, stream_delivered>>
    /\ UNCHANGED <<embVars, ingVars, extVars>>

\* the inner try around process_ai_response, with its plain-text fallback
AnswerRich ==
    /\ ans_pc = "rich"
    /\ \E ok \in BOOLEAN :
         IF ok
         THEN /\ ans_final' = "rich_content"
              /\ UNCHANGED ans_failed
         ELSE /\ ans_final' = "plain_text_wrapped"
              /\ ans_failed' = ans_failed \cup {"rich_content"}
    /\ ans_pc' = "cache_update"
    /\ UNCHANGED <<ans_history, ans_results, ans_response>>
    /\ UNCHANGED otherThanAns

\* metadata, then _update_conversation_cache when there is a redis client
\* and a history; its own try/except absorbs a cache failure
AnswerCacheUpdate ==
    /\ ans_pc = "cache_update"
    /\ IF cache_client /\ ans_history
       THEN \E ok \in BOOLEAN :
              ans_failed' = IF ok THEN ans_failed
                            ELSE ans_failed \cup {"conversation_cache"}
       ELSE UNCHANGED ans_failed
    /\ ans_pc' = "respond"
    /\ UNCHANGED <<ans_history, ans_results, ans_final, ans_response>>
    /\ UNCHANGED otherThanAns

\* return ChatResponse(content=final_response, ...): the model validates the
\* content; a validation error is an exception like any other in the try
AnswerRespond ==
    /\ ans_pc = "respond"
    /\ IF ChatResponseAccepts(TypeOfFinal(ans_final))
       THEN /\ ans_pc' = "returned"
            /\ ans_response' = [content |-> "generated", has_error |-> FALSE]
       ELSE LET o == OnAnswerError("validation")
            IN  /\ ans_pc' = o.pc
                /\ ans_response' = o.response
    /\ UNCHANGED <<ans_history, ans_results, ans_failed, ans_final>>
    /\ UNCHANGED otherThanAns

\* the caller has taken the response
AnswerOver ==
    /\ ans_pc \in {"returned", "raised"}
    /\ ans_pc' = "idle"
    /\ UNCHANGED <<ans_history, ans_results, ans_failed, ans_final, ans_response>>
    /\ UNCHANGED otherThanAns

AnsIdle ==
    /\ ans_pc = "idle"
    /\ ans_history = FALSE
    /\ ans_results = 0
    /\ ans_failed = {}
    /\ ans_final = "none"
    /\ ans_response = NoResponse

(***************************************************************************)
(* Specification of the fallback wrapper on its own.                       *)
(***************************************************************************)
LLMConfigured ==
    \E keys \in SUBSET LLMProviderEnum, configured \in LLMProviderEnum,
       mock_importable \in BOOLEAN, ef \in BOOLEAN, ec \in BOOLEAN :
        LET available == get_available_providers(keys)
        IN  /\ CanCreate(InitPrimary(configured, available), mock_importable)
            /\ settings = [LLM_PROVIDER |-> configured, ENABLE_FALLBACK |-> ef,
                           ENABLE_CACHE |-> ec]
            /\ primary_provider = InitPrimary(configured, available)
            /\ fallback_providers =
                   InitFallbacks(configured, available, mock_importable)

LLMIdle ==
    /\ llm_pc = "idle"
    /\ llm_will = [s \in Slots |-> "ok"]
    /\ llm_idx = 0
    /\ llm_invoked = <<>>
    /\ llm_result = NoResult
    /\ stream_delivered = <<>>

InitLLM ==
    /\ LLMConfigured
    /\ settings.ENABLE_CACHE
    /\ LLMIdle
    /\ cache_client = TRUE
    /\ EmbIdle
    /\ IngIdle
    /\ AnsIdle
    /\ ExtIdle

CallComplete ==
    /\ \E will \in [Slots -> {"ok", "fail"}] : CompleteBegin(will)
    /\ UNCHANGED otherThanLLM

NextLLM ==
    \/ CallComplete
    \/ CompletePrimary
    \/ CompleteFallback
    \/ StreamBegin
    \/ StreamYield
    \/ StreamEnd
    \/ StreamFail
    \/ LLMCallOver

SpecLLM == InitLLM /\ [][NextLLM]_vars

LLMTerminal == llm_pc \in {"returned", "raised"}

LLMStreamPc == llm_pc \in {"streaming", "stream_done", "stream_raised"}

SomeFallbackWouldSucceed == \E i \in 1..NumFallbacks : llm_will[i] = "ok"

EveryProviderFailed == \A s \in Slots : llm_will[s] = "fail"

\* C1 (as stated): when the primary raises, complete() returns a result
\* whenever some provider of the fallback list succeeds, and the 'all
\* providers failed' error is raised only when the primary and every fallback
\* failed.
C1_AsStated ==
    LLMTerminal =>
        /\ (llm_will[0] = "fail" /\ SomeFallbackWouldSucceed)
               => llm_result.kind = "text"
        /\ llm_result.error = "all_failed" => EveryProviderFailed

\* C1 (amended): with settings.ENABLE_FALLBACK set, a failing primary still
\* yields a result whenever some fallback succeeds; 'all providers failed' is
\* raised only when the primary and every fallback failed; with
\* ENABLE_FALLBACK off the primary's own error is re-raised and no fallback
\* is asked.
C1_FallbackWhenEnabled ==
    LLMTerminal =>
        /\ (settings.ENABLE_FALLBACK /\ llm_will[0] = "fail"
               /\ SomeFallbackWouldSucceed) => llm_result.kind = "text"
        /\ llm_result.error = "all_failed" => EveryProviderFailed
        /\ (~settings.ENABLE_FALLBACK /\ llm_will[0] = "fail")
               => /\ llm_result = Raised("primary_error")
                  /\ llm_invoked = <<0>>

C1_Witness ==
    /\ llm_pc = "returned"
    /\ llm_will[0] = "fail"
    /\ Len(llm_invoked) >= 3
    /\ llm_result.kind = "text"

InitEmbed ==
    /\ LLMConfigured
    /\ settings.LLM_PROVIDER = "anthropic"
    /\ settings.ENABLE_FALLBACK
    /\ primary_provider = "anthropic"
    /\ fallback_providers = <<"mock">>
    /\ LLMIdle
    /\ cache_client \in BOOLEAN
    /\ EmbIdle
    /\ IngIdle
    /\ AnsIdle
    /\ ExtIdle

NextEmbed ==
    \/ EmbedTextBegin
    \/ EmbedTextGet
    \/ EmbedTextProvider
    \/ EmbedTextSetex
    \/ EmbedTextsUncached
    \/ EmbedTextsCached
    \/ EmbCallOver
    \/ CacheExpire

SpecEmbed == InitEmbed /\ [][NextEmbed]_vars

\* two successive, completed embed_text calls on the same text
TwoSuccessiveCalls ==
    /\ emb_pc = "returned"
    /\ emb_call.kind = "one"
    /\ emb_prev.kind = "one"
    /\ emb_prev.text = emb_call.text
    /\ emb_prev.result \notin {None, "raised"}

C5_CacheFailuresAbsorbed ==
    /\ (emb_pc \in {"returned", "raised"} /\ emb_call.kind = "one") =>
          /\ emb_pc = "raised" <=> emb_call.prov = "fail"
          /\ emb_call.result = "raised" <=> emb_call.prov = "fail"
          /\ emb_call.prov = "ok" => emb_call.result = emb_call.provvec
          /\ emb_call.set = "ok" =>
                 cache[get_cache_key(emb_call.text)] = JsonDumps(emb_call.provvec)
    /\ (emb_pc \in {"returned", "raised"} /\ emb_call.kind = "many") =>
          /\ emb_pc = "raised" <=> emb_call.prov = "fail"
          /\ emb_call.prov # "fail" =>
                /\ Len(emb_call.result) = Len(emb_call.texts)
                /\ \A i \in 1..Len(emb_call.texts) :
                      emb_call.get[i] = "fail" => i \in Range(emb_call.unc)
                /\ \A j \in 1..Len(emb_call.unc) :
                      /\ emb_call.prov = "ok"
                      /\ emb_call.result[emb_call.unc[j]] = emb_call.new[j]
                      /\ (/\ CacheActive
                          /\ emb_call.unc[j] \notin emb_call.set_fail
                          /\ \A k \in (j + 1)..Len(emb_call.unc) :
                                \/ emb_call.texts[emb_call.unc[k]]
                                       # emb_call.texts[emb_call.unc[j]]
                                \/ emb_call.unc[k] \in emb_call.set_fail)
                         => cache[get_cache_key(emb_call.texts[emb_call.unc[j]])]
                                = JsonDumps(emb_call.new[j])

C5_Witness ==
    /\ emb_pc = "returned"
    /\ emb_call.kind = "one"
    /\ emb_call.get = "fail"
    /\ emb_call.set = "fail"
    /\ emb_call.result = emb_call.provvec

C5_WitnessBatch ==
    /\ emb_pc = "returned"
    /\ emb_call.kind = "many"
    /\ \E i \in 1..Len(emb_call.texts) : emb_call.get[i] = "fail"
    /\ emb_call.set_fail # {}
    /\ Len(emb_call.result) = 2

(***************************************************************************)
(* Specification of the ingestion pipeline.                                *)
(***************************************************************************)
\* one fixed configuration of the completion wrapper
LLMDefaultConfig ==
    /\ LLMConfigured
    /\ settings.LLM_PROVIDER = "anthropic"
    /\ settings.ENABLE_FALLBACK
    /\ settings.ENABLE_CACHE
    /\ primary_provider = "anthropic"
    /\ fallback_providers = <<"mock">>
    /\ LLMIdle

InitIngest ==
    /\ LLMDefaultConfig
    /\ cache_client = TRUE
    /\ EmbIdle
    /\ IngIdle
    /\ AnsIdle
    /\ ExtIdle

NextIngest ==
    \/ IngestBegin
    \/ IngestParse
    \/ IngestChunk
    \/ BatchEmbed
    \/ BatchPersist
    \/ IngestStoreMeta
    \/ IngestOver

SpecIngest == InitIngest /\ [][NextIngest]_vars

\* C6: when embedding or persisting batch i fails, only the chunks of batch
\* i are counted as failed and none of them as successful, and every later
\* batch is still processed and counted on its own.
C6_BatchFailureIsolated ==
    /\ \A i \in ing_batch_failed :
          /\ BatchOf(i, ing_chunks) \subseteq ing_counted_failed
          /\ BatchOf(i, ing_chunks) \cap ing_counted_ok = {}
    /\ ing_result.successful_chunks = Cardinality(ing_counted_ok)
    /\ (ing_pc = "returned" /\ ing_failed_step = "none") =>
          ing_batches_done = BatchStarts(ing_chunks)

\* the part of C6 that the code keeps: a failed batch does not stop the
\* later batches
C6_LaterBatchesStillRun ==
    (ing_pc = "returned" /\ ing_failed_step = "none") =>
        ing_batches_done = BatchStarts(ing_chunks)

\* C7: ingest_document never raises: a parsing or chunking failure ends the
\* ingestion before any batch and is recorded in result.errors, a failed
\* batch is recorded in result.errors, and a result is always returned.
C7_IngestNeverRaises ==
    /\ ing_pc # "raised"
    /\ ing_pc = "returned" =>
          /\ ing_failed_step # "none" =>
                /\ Len(ing_result.errors) = 1
                /\ ing_batches_done = {}
                /\ ing_result.successful_chunks = 0
                /\ ing_result.failed_chunks = 0
          /\ Cardinality({k \in 1..Len(ing_result.errors) :
                             ing_result.errors[k][1] = "Batch processing error"})
                 = Cardinality(ing_batch_failed)

C7_Witness ==
    /\ ing_pc = "returned"
    /\ ing_failed_step = "chunk"
    /\ ing_result.errors = <<<<"chunk error", 0>>>>

C7_WitnessBatch ==
    /\ ing_pc = "returned"
    /\ Cardinality(ing_batch_failed) = 2

\* a document of one batch in which the embedding of exactly one chunk failed
OneItemFailedInOneBatch ==
    /\ ing_pc = "returned"
    /\ ing_failed_step = "none"
    /\ ing_chunks >= 1
    /\ ing_chunks <= batch_size
    /\ Cardinality(ing_embed_fail) = 1

\* C8 (as stated): when the embedding of exactly one item of a batch of n
\* chunks fails, the ingestion does not raise and the result has
\* failed_chunks = 1 and successful_chunks = n - 1.
C8_AsStated ==
    OneItemFailedInOneBatch =>
        /\ ing_result.failed_chunks = 1
        /\ ing_result.successful_chunks = ing_chunks - 1

\* C8 (amended): when the embedding of exactly one item of a batch of n
\* chunks fails, the whole batch fails: the ingestion does not raise and the
\* result has failed_chunks = n and successful_chunks = 0.
C8_WholeBatchFails ==
    /\ ing_pc # "raised"
    /\ OneItemFailedInOneBatch =>
          /\ ing_result.failed_chunks = ing_chunks
          /\ ing_result.successful_chunks = 0
          /\ ing_result.total_chunks = ing_chunks

C8_Witness ==
    /\ OneItemFailedInOneBatch
    /\ ing_chunks = 3
    /\ ing_embed_fail = {2}
    /\ ing_result.failed_chunks = 3

(***************************************************************************)
(* Specification of the answer pipeline, completion wrapper included.      *)
(***************************************************************************)
InitAnswer ==
    /\ LLMConfigured
    /\ settings.LLM_PROVIDER = "anthropic"
    /\ settings.ENABLE_CACHE
    /\ LLMIdle
    /\ cache_client \in BOOLEAN
    /\ EmbIdle
    /\ IngIdle
    /\ AnsIdle
    /\ ExtIdle

NextAnswer ==
    \/ AnswerBegin
    \/ AnswerEmbedQuery
    \/ AnswerHybrid
    \/ AnswerRerank
    \/ AnswerContext
    \/ AnswerCallLLM
    \/ CompletePrimary
    \/ CompleteFallback
    \/ AnswerAfterLLM
    \/ AnswerRich
    \/ AnswerCacheUpdate
    \/ AnswerRespond
    \/ AnswerOver

SpecAnswer == InitAnswer /\ [][NextAnswer]_vars

\* the steps of the answer pipeline named by the failure policy
PipelineSteps == {"embed", "hybrid", "rerank", "complete"}

\* C9: generate_response never lets an exception reach its caller: whatever
\* combination of steps fails, a ChatResponse is returned.
C9_AnswerNeverRaises ==
    /\ ans_pc # "raised"
    /\ ans_pc = "returned" => ans_response.content \in {"apology", "generated"}

C9_Witness ==
    /\ ans_pc = "returned"
    /\ {"embed", "agent_config", "complete"} \subseteq ans_failed
    /\ ans_response.content = "apology"

C9_WitnessLate ==
    /\ ans_pc = "returned"
    /\ {"hybrid", "rich_content", "conversation_cache"} \subseteq ans_failed

MaxDocs == 2

Abs(x) == IF x < 0 THEN -x ELSE x

RECURSIVE GCD(_, _)
GCD(a, b) == IF b = 0 THEN a ELSE GCD(b, a % b)

\* the fraction n / d for d # 0, in lowest terms and with d > 0
FNorm(n, d) ==
    LET g == GCD(Abs(n), Abs(d))
    IN  IF d < 0 THEN <<(-n) \div g, (-d) \div g>> ELSE <<n \div g, d \div g>>

FAdd(a, b) == FNorm(a[1] * b[2] + b[1] * a[2], a[2] * b[2])

FMul(a, b) == FNorm(a[1] * b[1], a[2] * b[2])

\* a / b for b # 0
FDiv(a, b) == FNorm(a[1] * b[2], a[2] * b[1])

FGreater(a, b) == a[1] * b[2] > b[1] * a[2]

FEqual(a, b) == a[1] * b[2] = b[1] * a[2]

FZero == <<0, 1>>

\* the order of two scored entries by their scores
ScoreGreater(a, b) == FGreater(a.score.value, b.score.value)

\* the variant in which the list is left in the order it had
SortKeepsOrder(seq) == seq

\* list.sort(key=lambda x: score of x, reverse=True): descending and stable,
\* entries that compare equal keep the order they had
SortDesc(seq) ==
    LET n == Len(seq)
        Before(j, i) == \/ ScoreGreater(seq[j], seq[i])
                        \/ (~ScoreGreater(seq[i], seq[j]) /\ j < i)
        Rank(i) == 1 + Cardinality({j \in 1..n : j # i /\ Before(j, i)})
    IN  [r \in 1..n |-> seq[CHOOSE i \in 1..n : Rank(i) = r]]

\* seq[:k]
Head_k(seq, k) == SubSeq(seq, 1, IF k < Len(seq) THEN k ELSE Len(seq))

\* HybridSearchEngine.__init__(vector_weight, keyword_weight), the weights
\* in tenths: the stored weights, or the ZeroDivisionError of line 54
NewEngine(vector_weight, keyword_weight) ==
    LET total_weight == vector_weight + keyword_weight
    IN  IF total_weight # 10
        THEN IF total_weight = 0
             THEN [kind |-> "raised", vector_weight |-> FZero,
                   keyword_weight |-> FZero]
             ELSE [kind |-> "built",
                   vector_weight |-> FNorm(vector_weight, total_weight),
                   keyword_weight |-> FNorm(keyword_weight, total_weight)]
        ELSE [kind |-> "built", vector_weight |-> <<vector_weight, 10>>,
              keyword_weight |-> <<keyword_weight, 10>>]

(***************************************************************************)
(* _calculate_bm25_score for a query of one token.  A document is known by *)
(* tf, the occurrences of the token among its tokens, other, the number of *)
(* its remaining tokens, and contains, whether its lower-cased content     *)
(* holds the token as a substring (which `cats` does for `cat`).           *)
(* idf = log((N - df + 0.5) / (df + 0.5)) is kept as its sign, and a score *)
(* as the fraction that multiplies |idf|: scores of one pool share |idf|,  *)
(* so their order and their ratios are exact.                              *)
(***************************************************************************)
\* k1: float = 1.2, times ten
k1_x10 == 12

\* b: float = 0.75, times a hundred
b_x100 == 75

RECURSIVE SumLen(_, _)
SumLen(docs, i) ==
    IF i > Len(docs) THEN 0 ELSE docs[i].tf + docs[i].other + SumLen(docs, i + 1)

\* the sign of math.log((N - df + 0.5) / (df + 0.5))
IdfSign(N, df) == IF N > 2 * df THEN 1 ELSE IF N = 2 * df THEN 0 ELSE -1

\* the float 0.0 the function starts from and returns when nothing is added
PyZero == [value |-> FZero, np |-> FALSE]

_calculate_bm25_score(doc, all_documents) ==
    LET N == Len(all_documents)
        total == SumLen(all_documents, 1)
        doc_length == doc.tf + doc.other
        df == Cardinality({i \in 1..N : all_documents[i].contains})
        numerator == doc.tf * (k1_x10 + 10) * 100 * total
        denominator == doc.tf * 1000 * total
                       + k1_x10 * ((100 - b_x100) * total
                                   + b_x100 * doc_length * N)
    IN  IF doc_length = 0 \/ doc.tf = 0 THEN PyZero
        ELSE [value |-> FNorm(IdfSign(N, df) * numerator, denominator),
              np |-> TRUE]

(***************************************************************************)
(* HybridSearchEngine.search and the two queries                           *)
(***************************************************************************)
\* 1 - cosine distance of a stored embedding to the query, in halves
Similarities == {-1, 0, 1, 2}

\* what the vector query sees of a document of the agent
VectorKinds ==
    {[emb |-> FALSE, sim |-> 0]} \cup [emb : {TRUE}, sim : Similarities]

\* what the keyword query sees of it: no match, a match inside a longer word
\* only, one exact occurrence, two exact occurrences
KeywordKinds ==
    {[contains |-> FALSE, tf |-> 0, other |-> 1],
     [contains |-> TRUE, tf |-> 0, other |-> 1],
     [contains |-> TRUE, tf |-> 1, other |-> 0],
     [contains |-> TRUE, tf |-> 2, other |-> 0]}

Doc(v, w) == [emb |-> v.emb, sim |-> v.sim, contains |-> w.contains,
              tf |-> w.tf, other |-> w.other]

\* the rows of KnowledgeDocument that one of the two queries can return
DocKinds ==
    {Doc(v, w) : v \in VectorKinds, w \in KeywordKinds}
        \ {Doc(v, w) : v \in {[emb |-> FALSE, sim |-> 0]},
                       w \in {[contains |-> FALSE, tf |-> 0, other |-> 1]}}

Stores == UNION {[1..n -> DocKinds] : n \in 0..MaxDocs}

\* the rows of store with an embedding, by row number
RowsWithEmbedding(store) ==
    SelectSeq([i \in 1..Len(store) |-> i], LAMBDA i : store[i].emb)

\* the rows of store whose lower-cased content holds the token
RowsContaining(store) ==
    SelectSeq([i \in 1..Len(store) |-> i], LAMBDA i : store[i].contains)

\* _vector_search without the exception: rows with an embedding, nearest
\* first, at most k of them, each with 1 - distance
_vector_search(store, k) ==
    LET rows == RowsWithEmbedding(store)
        scored == [j \in 1..Len(rows) |->
                      [id |-> rows[j],
                       score |-> [value |-> <<store[rows[j]].sim, 2>>,
                                  np |-> FALSE]]]
    IN  Head_k(SortDesc(scored), k)

\* _keyword_search without the exception: nothing for a query without
\* tokens, else at most k rows whose content holds the token, scored against
\* the rows fetched and sorted by score, best first
_keyword_search(store, query_tokens, k) ==
    IF query_tokens = 0 THEN <<>>
    ELSE LET rows == Head_k(RowsContaining(store), k)
             documents == [j \in 1..Len(rows) |-> store[rows[j]]]
             scored == [j \in 1..Len(rows) |->
                           [id |-> rows[j],
                            score |-> _calculate_bm25_score(documents[j],
                                                            documents)]]
         IN  SortDesc(scored)

\* max(scores.values()) if scores else 1.0: the first of the largest values
MaxScore(results) ==
    IF results = <<>> THEN [value |-> <<1, 1>>, np |-> FALSE]
    ELSE results[CHOOSE i \in 1..Len(results) :
                    /\ \A j \in 1..Len(results) :
                           ~ScoreGreater(results[j], results[i])
                    /\ \A j \in 1..(i - 1) :
                           ScoreGreater(results[i], results[j])].score

\* scores.get(doc_id, 0.0)
ScoreOf(results, id) ==
    IF \E i \in 1..Len(results) : results[i].id = id
    THEN results[CHOOSE i \in 1..Len(results) : results[i].id = id].score
    ELSE PyZero

\* x / m raises ZeroDivisionError when both are Python floats and m is 0.0
DivRaises(x, m) == m.value[1] = 0 /\ ~x.np /\ ~m.np

\* with a numpy operand the division by zero yields nan or inf instead
DivNaN(x, m) == m.value[1] = 0 /\ (x.np \/ m.np)

\* _combine_results: every document of either list once, vector documents
\* first, with its two scores divided by the largest score of their list and
\* blended with the weights
_combine_results(vector_results, keyword_results, weights) ==
    LET vector_ids == [i \in 1..Len(vector_results) |-> vector_results[i].id]
        keyword_ids == [i \in 1..Len(keyword_results) |-> keyword_results[i].id]
        all_docs == vector_ids \o
                    SelectSeq(keyword_ids,
                              LAMBDA id : \A i \in 1..Len(vector_ids) :
                                              vector_ids[i] # id)
        max_vector_score == MaxScore(vector_results)
        max_keyword_score == MaxScore(keyword_results)
        raises == \E i \in 1..Len(all_docs) :
                      \/ DivRaises(ScoreOf(vector_results, all_docs[i]),
                                   max_vector_score)
                      \/ DivRaises(ScoreOf(keyword_results, all_docs[i]),
                                   max_keyword_score)
        nan == \E i \in 1..Len(all_docs) :
                   \/ DivNaN(ScoreOf(vector_results, all_docs[i]),
                             max_vector_score)
                   \/ DivNaN(ScoreOf(keyword_results, all_docs[i]),
                             max_keyword_score)
        Result(id) ==
            LET vector_score == FDiv(ScoreOf(vector_results, id).value,
                                     max_vector_score.value)
                keyword_score == FDiv(ScoreOf(keyword_results, id).value,
                                      max_keyword_score.value)
            IN  [id |-> id, vector_score |-> vector_score,
                 keyword_score |-> keyword_score,
                 score |-> [value |-> FAdd(FMul(weights.vector_weight,
                                                vector_score),
                                           FMul(weights.keyword_weight,
                                                keyword_score)),
                            np |-> TRUE]]
    IN  IF raises THEN [kind |-> "raised", docs |-> <<>>]
        ELSE IF nan THEN [kind |-> "nan", docs |-> <<>>]
        ELSE [kind |-> "returned",
              docs |-> [i \in 1..Len(all_docs) |-> Result(all_docs[i])]]

\* the weights a caller may configure, in tenths
WeightTenths == 0..10

\* HybridSearchEngine(vector_weight, keyword_weight)
HybConstruct ==
    /\ hyb_pc = "unbuilt"
    /\ \E vector_weight \in WeightTenths, keyword_weight \in WeightTenths :
          LET e == NewEngine(vector_weight, keyword_weight)
          IN  /\ hyb_config' = <<vector_weight, keyword_weight>>
              /\ hyb_weights' = [vector_weight |-> e.vector_weight,
                                 keyword_weight |-> e.keyword_weight]
              /\ hyb_pc' = IF e.kind = "built" THEN "idle" ELSE "init_raised"
    /\ UNCHANGED <<hyb_in, hyb_vector_results, hyb_keyword_results, hyb_out>>
    /\ UNCHANGED otherThanHyb

\* a caller enters search(query, query_embedding, agent_id, k, keyword_k)
HybSearchBegin ==
    /\ hyb_pc = "idle"
    /\ \E store \in Stores, k \in 1..MaxDocs, wide \in BOOLEAN,
          query_tokens \in 0..1, vector_fails \in BOOLEAN,
          keyword_fails \in BOOLEAN :
          hyb_in' = [store |-> store, k |-> k,
                     keyword_k |-> IF wide THEN 3 * k ELSE 1,
                     query_tokens |-> query_tokens,
                     vector_fails |-> vector_fails,
                     keyword_fails |-> keyword_fails]
    /\ hyb_pc' = "vector"
    /\ hyb_vector_results' = <<>>
    /\ hyb_keyword_results' = <<>>
    /\ hyb_out' = NoOutcome
    /\ UNCHANGED <<hyb_config, hyb_weights>>
    /\ UNCHANGED otherThanHyb

\* vector_results = await self._vector_search(..., k * 2, ...): the except
\* branch turns a failure into the empty list
HybVectorSearch ==
    /\ hyb_pc = "vector"
    /\ hyb_vector_results' =
           IF hyb_in.vector_fails THEN <<>>
           ELSE _vector_search(hyb_in.store, hyb_in.k * 2)
    /\ hyb_pc' = "keyword"
    /\ UNCHANGED <<hyb_config, hyb_weights, hyb_in, hyb_keyword_results, hyb_out>>
    /\ UNCHANGED otherThanHyb

\* keyword_results = await self._keyword_search(..., keyword_k, ...)
HybKeywordSearch ==
    /\ hyb_pc = "keyword"
    /\ hyb_keyword_results' =
           IF hyb_in.keyword_fails THEN <<>>
           ELSE _keyword_search(hyb_in.store, hyb_in.query_tokens,
                                hyb_in.keyword_k)
    /\ hyb_pc' = "combine"
    /\ UNCHANGED <<hyb_config, hyb_weights, hyb_in, hyb_vector_results, hyb_out>>
    /\ UNCHANGED otherThanHyb

\* _combine_results, the sort by combined score and the cut to k; nothing
\* in search() catches what _combine_results raises
HybCombine ==
    /\ hyb_pc = "combine"
    /\ LET combined_results == _combine_results(hyb_vector_results,
                                                hyb_keyword_results, hyb_weights)
       IN  IF combined_results.kind = "returned"
           THEN /\ hyb_out' = [kind |-> "returned",
                               docs |-> Head_k(SortDesc(combined_results.docs),
                                               hyb_in.k)]
                /\ hyb_pc' = "done"
           ELSE /\ hyb_out' = combined_results
                /\ hyb_pc' = IF combined_results.kind = "raised" THEN "raised"
                             ELSE "done"
    /\ UNCHANGED <<hyb_config, hyb_weights, hyb_in, hyb_vector_results,
                   hyb_keyword_results>>
    /\ UNCHANGED otherThanHyb

\* the caller has the result or the exception; the engine is at rest again
HybOver ==
    /\ hyb_pc \in {"done", "raised"}
    /\ hyb_pc' = "idle"
    /\ hyb_in' = NoSearch
    /\ hyb_vector_results' = <<>>
    /\ hyb_keyword_results' = <<>>
    /\ hyb_out' = NoOutcome
    /\ UNCHANGED <<hyb_config, hyb_weights>>
    /\ UNCHANGED otherThanHyb

\* the wrappers and the pipelines at rest, in the default configuration
CoreIdle ==
    /\ LLMDefaultConfig
    /\ cache_client = TRUE
    /\ EmbIdle
    /\ IngIdle
    /\ AnsIdle

(***************************************************************************)
(* Specification of the construction of the search engine.                 *)
(***************************************************************************)
InitHybridInit ==
    /\ CoreIdle
    /\ BmIdle
    /\ ChkIdle
    /\ CtxIdle
    /\ DbEmpty
    /\ PsIdle
    /\ RrIdle
    /\ RtIdle
    /\ hyb_pc = "unbuilt"
    /\ hyb_config = <<0, 0>>
    /\ hyb_weights = [vector_weight |-> FZero, keyword_weight |-> FZero]
    /\ hyb_in = NoSearch
    /\ hyb_vector_results = <<>>
    /\ hyb_keyword_results = <<>>
    /\ hyb_out = NoOutcome

NextHybridInit == HybConstruct

SpecHybridInit == InitHybridInit /\ [][NextHybridInit]_vars

(***************************************************************************)
(* Specification of search() on an engine already built.                   *)
(***************************************************************************)
\* the configurations searched with: the one of ProductionRAGEngine, the two
\* degenerate ones and one that __init__ renormalises
HybridConfigs == {<<7, 3>>, <<10, 0>>, <<0, 10>>, <<1, 1>>}

InitHybrid ==
    /\ CoreIdle
    /\ BmIdle
    /\ ChkIdle
    /\ CtxIdle
    /\ DbEmpty
    /\ PsIdle
    /\ RrIdle
    /\ RtIdle
    /\ hyb_pc = "idle"
    /\ hyb_config \in HybridConfigs
    /\ hyb_weights = [vector_weight |-> NewEngine(hyb_config[1], hyb_config[2]).vector_weight,
                      keyword_weight |-> NewEngine(hyb_config[1], hyb_config[2]).keyword_weight]
    /\ hyb_in = NoSearch
    /\ hyb_vector_results = <<>>
    /\ hyb_keyword_results = <<>>
    /\ hyb_out = NoOutcome

NextHybrid ==
    \/ HybSearchBegin
    \/ HybVectorSearch
    \/ HybKeywordSearch
    \/ HybCombine
    \/ HybOver

SpecHybrid == InitHybrid /\ [][NextHybrid]_vars

(***************************************************************************)
(* Claims about the hybrid search.                                         *)
(***************************************************************************)
HybEnded == hyb_pc \in {"done", "raised"}

\* the documents the result lists, in rank order
OutIds == [i \in 1..Len(hyb_out.docs) |-> hyb_out.docs[i].id]

\* ids lists the best k of the candidates, best first, by the candidates'
\* own scores
RankedBy(ids, candidates, k) ==
    /\ Len(ids) = (IF k < Len(candidates) THEN k ELSE Len(candidates))
    /\ \A i \in 1..Len(ids) : \E c \in 1..Len(candidates) : candidates[c].id = ids[i]
    /\ \A i, j \in 1..Len(ids) : i # j => ids[i] # ids[j]
    /\ \A i, j \in 1..Len(ids) :
          i < j => ~FGreater(ScoreOf(candidates, ids[j]).value,
                             ScoreOf(candidates, ids[i]).value)
    /\ \A c \in 1..Len(candidates) :
          (\A i \in 1..Len(ids) : ids[i] # candidates[c].id) =>
              \A i \in 1..Len(ids) :
                  ~FGreater(candidates[c].score.value,
                            ScoreOf(candidates, ids[i]).value)

\* C11: the two queries of search() fail independently: when the vector
\* query raises, search returns the keyword candidates ranked by keyword
\* score, when the keyword query raises it returns the vector candidates
\* ranked by vector score, and the failure of one side never makes search
\* raise or return nothing while the other side returned candidates.
C11_SidesFailIndependently ==
    (HybEnded /\ hyb_in.vector_fails # hyb_in.keyword_fails) =>
        /\ hyb_pc # "raised"
        /\ hyb_out.kind = "returned"
        /\ hyb_in.vector_fails =>
              /\ RankedBy(OutIds, hyb_keyword_results, hyb_in.k)
              /\ hyb_keyword_results # <<>> => hyb_out.docs # <<>>
        /\ hyb_in.keyword_fails =>
              /\ RankedBy(OutIds, hyb_vector_results, hyb_in.k)
              /\ hyb_vector_results # <<>> => hyb_out.docs # <<>>

\* the failing input of C11: the vector query raises and the keyword query
\* returns one document that holds the token inside a longer word only
C11_FailingInput ==
    /\ hyb_pc = "raised"
    /\ hyb_in.vector_fails /\ ~hyb_in.keyword_fails
    /\ Len(hyb_keyword_results) = 1
    /\ hyb_keyword_results[1].score = PyZero

\* C12: for every pair of configured weights the construction succeeds and
\* the stored weights sum to 1 and keep the ratio of the configured weights.
C12_WeightsRenormalised ==
    hyb_pc # "unbuilt" =>
        /\ hyb_pc # "init_raised"
        /\ FEqual(FAdd(hyb_weights.vector_weight, hyb_weights.keyword_weight),
                  <<1, 1>>)
        /\ FEqual(FMul(hyb_weights.vector_weight, <<hyb_config[2], 1>>),
                  FMul(hyb_weights.keyword_weight, <<hyb_config[1], 1>>))

\* the failing input of C12: both weights 0
C12_FailingInput == hyb_pc = "init_raised" /\ hyb_config = <<0, 0>>

\* a pair that does not sum to 1 and is renormalised
C12_Renormalised ==
    /\ hyb_pc = "idle"
    /\ hyb_config = <<2, 6>>
    /\ hyb_weights = [vector_weight |-> <<1, 4>>, keyword_weight |-> <<3, 4>>]

\* every document of either list, with the score the list named gives it
\* (0.0 when it is not in that list)
Candidates(results) ==
    LET ids == {hyb_vector_results[i].id : i \in 1..Len(hyb_vector_results)}
               \cup {hyb_keyword_results[i].id : i \in 1..Len(hyb_keyword_results)}
        row == SelectSeq([i \in 1..MaxDocs + 1 |-> i], LAMBDA i : i \in ids)
    IN  [j \in 1..Len(row) |-> [id |-> row[j], score |-> ScoreOf(results, row[j])]]

\* C13: with vector_weight = 1 and keyword_weight = 0 the results of search
\* are in the order of the vector scores alone, and with vector_weight = 0
\* and keyword_weight = 1 in the order of the keyword scores alone.
C13_DegenerateWeights ==
    (HybEnded /\ ~hyb_in.vector_fails /\ ~hyb_in.keyword_fails) =>
        /\ hyb_config = <<10, 0>> =>
              /\ hyb_out.kind = "returned"
              /\ RankedBy(OutIds, Candidates(hyb_vector_results), hyb_in.k)
        /\ hyb_config = <<0, 10>> =>
              /\ hyb_out.kind = "returned"
              /\ RankedBy(OutIds, Candidates(hyb_keyword_results), hyb_in.k)

\* the failing input of C13: weights (1, 0), the vector query returns a
\* document, the keyword query another one that holds the token inside a
\* longer word only
C13_FailingInput ==
    /\ hyb_pc = "raised"
    /\ hyb_config = <<10, 0>>
    /\ ~hyb_in.vector_fails /\ ~hyb_in.keyword_fails
    /\ Len(hyb_vector_results) = 1 /\ hyb_vector_results[1].score.value = <<1, 2>>
    /\ Len(hyb_keyword_results) = 1 /\ hyb_keyword_results[1].score = PyZero
    /\ hyb_vector_results[1].id # hyb_keyword_results[1].id

\* weights (0, 1): two keyword candidates come back in the reverse of the
\* order of their keyword scores
C13_KeywordOrderReversed ==
    /\ hyb_pc = "done" /\ hyb_out.kind = "returned"
    /\ hyb_config = <<0, 10>>
    /\ Len(hyb_out.docs) = 2 /\ Len(hyb_keyword_results) = 2
    /\ hyb_vector_results = <<>>
    /\ hyb_out.docs[1].id = hyb_keyword_results[2].id
    /\ ScoreGreater(hyb_keyword_results[1], hyb_keyword_results[2])

(***************************************************************************)
(* _calculate_bm25_score over arbitrary candidate pools.                   *)
(***************************************************************************)
\* largest number of documents in a pool
MaxPool == 3

\* the documents of a pool: a document whose content holds the token as a
\* substring has at least one token, and one with an exact occurrence holds
\* the token
PoolDocs ==
    {d \in [tf : 0..2, other : 0..1, contains : BOOLEAN] :
        /\ d.tf > 0 => d.contains
        /\ d.contains => d.tf + d.other > 0}

Pools == UNION {[1..n -> PoolDocs] : n \in 1..MaxPool}

\* _keyword_search enters its scoring loop with the documents fetched
Bm25Begin ==
    /\ bm_pc = "idle"
    /\ bm_pool' \in Pools
    /\ bm_scores' = <<>>
    /\ bm_pc' = "scoring"
    /\ UNCHANGED otherThanBm

\* for doc in documents: score = self._calculate_bm25_score(doc.content,
\* query_tokens, documents)
Bm25Score ==
    /\ bm_pc = "scoring"
    /\ bm_scores' = [i \in 1..Len(bm_pool) |->
                        _calculate_bm25_score(bm_pool[i], bm_pool)]
    /\ bm_pc' = "scored"
    /\ UNCHANGED bm_pool
    /\ UNCHANGED otherThanBm

Bm25Over ==
    /\ bm_pc = "scored"
    /\ bm_pc' = "idle"
    /\ bm_pool' = <<>>
    /\ bm_scores' = <<>>
    /\ UNCHANGED otherThanBm

InitBm25 ==
    /\ CoreIdle
    /\ HybIdle
    /\ BmIdle
    /\ ChkIdle
    /\ CtxIdle
    /\ DbEmpty
    /\ PsIdle
    /\ RrIdle
    /\ RtIdle

NextBm25 ==
    \/ Bm25Begin
    \/ Bm25Score
    \/ Bm25Over

SpecBm25 == InitBm25 /\ [][NextBm25]_vars

\* document b is document a with one more exact occurrence of the token
OneMoreOccurrence(a, b) ==
    /\ b.tf = a.tf + 1
    /\ b.other = a.other
    /\ b.contains

\* C14: of two candidates of one pool that are identical except that one
\* holds one more exact occurrence of a query token, the one with the extra
\* occurrence never has the lower keyword score.
C14_Bm25Monotone ==
    bm_pc = "scored" =>
        \A i, j \in 1..Len(bm_pool) :
            OneMoreOccurrence(bm_pool[i], bm_pool[j]) =>
                ~FGreater(bm_scores[i].value, bm_scores[j].value)

\* the failing input of C14: the pool ['cat', 'cat cat'] for the token 'cat'
C14_FailingInput ==
    /\ bm_pc = "scored"
    /\ bm_pool = <<[tf |-> 1, other |-> 0, contains |-> TRUE],
                   [tf |-> 2, other |-> 0, contains |-> TRUE]>>
    /\ FGreater(bm_scores[1].value, bm_scores[2].value)
    /\ FGreater(FZero, bm_scores[1].value)

\* where the token is rare in the pool (N > 2 df) the extra occurrence
\* raises the score
C14_RareTokenRises ==
    /\ bm_pc = "scored"
    /\ Len(bm_pool) = 3
    /\ \E i, j \in 1..3 :
          /\ OneMoreOccurrence(bm_pool[i], bm_pool[j])
          /\ FGreater(bm_scores[j].value, bm_scores[i].value)

(***************************************************************************)
(* backend/rag/chunking_strategies.py                                      *)
(*                                                                         *)
(* A text is known by its units and their token counts.  A sentence is the *)
(* list of the token counts of its words, and count_tokens of a sentence   *)
(* is their sum; count_tokens(word + ' ') is one more than the word, the   *)
(* trailing blank being a token of its own.  Joining two units spends sep  *)
(* tokens on the separator: 0 where the tokenizer merges it into a         *)
(* neighbouring token, 1 where it does not.                                *)
(***************************************************************************)
RECURSIVE Sum(_)
Sum(seq) == IF seq = <<>> THEN 0 ELSE Head(seq) + Sum(Tail(seq))

RECURSIVE Flatten(_)
Flatten(seqs) == IF seqs = <<>> THEN <<>> ELSE Head(seqs) \o Flatten(Tail(seqs))

\* count_tokens(sentence)
SentenceTokens(sentence) == Sum(sentence.words)

\* count_tokens(sep.join(units)) from the token counts of the units
JoinTokens(counts, sep) ==
    IF counts = <<>> THEN 0 ELSE Sum(counts) + sep * (Len(counts) - 1)

\* the words of a sentence, each named by the sentence and its position
WordsOf(sentence) ==
    [k \in 1..Len(sentence.words) |-> <<sentence.id, k>>]

\* _create_chunk(' '.join(current_chunk), ...): the words the chunk holds,
\* its token_count and the path that emitted it
SentencesChunk(current_chunk, sep, path, overlap) ==
    [content |-> Flatten([i \in 1..Len(current_chunk) |-> WordsOf(current_chunk[i])]),
     token_count |-> JoinTokens([i \in 1..Len(current_chunk) |->
                                    SentenceTokens(current_chunk[i])], sep),
     path |-> path,
     overlap |-> overlap]

\* the loop `for word in words` of lines 89-101: the word chunks, each the
\* list of the positions of its words.  A word that does not fit while
\* current_word_chunk is empty is appended to nothing.
RECURSIVE WordLoop(_, _, _, _, _, _)
WordLoop(words, k, current_word_chunk, current_word_tokens, word_chunks, chunk_size) ==
    IF k > Len(words)
    THEN IF current_word_chunk # <<>>
         THEN Append(word_chunks, current_word_chunk)
         ELSE word_chunks
    ELSE LET word_tokens == words[k] + 1
         IN  IF current_word_tokens + word_tokens > chunk_size
             THEN IF current_word_chunk # <<>>
                  THEN WordLoop(words, k + 1, <<k>>, word_tokens,
                                Append(word_chunks, current_word_chunk), chunk_size)
                  ELSE WordLoop(words, k + 1, current_word_chunk,
                                current_word_tokens, word_chunks, chunk_size)
             ELSE WordLoop(words, k + 1, Append(current_word_chunk, k),
                           current_word_tokens + word_tokens, word_chunks,
                           chunk_size)

\* the chunks made of one sentence longer than chunk_size
WordChunks(sentence, chunk_size) ==
    LET word_chunks == WordLoop(sentence.words, 1, <<>>, 0, <<>>, chunk_size)
    IN  [c \in 1..Len(word_chunks) |->
            [content |-> [j \in 1..Len(word_chunks[c]) |->
                             <<sentence.id, word_chunks[c][j]>>],
             token_count |-> Sum([j \in 1..Len(word_chunks[c]) |->
                                     sentence.words[word_chunks[c][j]]]),
             path |-> "word_split",
             overlap |-> FALSE]]

\* the loop of lines 131-138: the longest tail of current_chunk whose
\* sentences, taken from the last one backwards, stay within chunk_overlap
RECURSIVE OverlapLoop(_, _, _, _, _)
OverlapLoop(current_chunk, j, overlap_sentences, overlap_tokens, chunk_overlap) ==
    IF j < 1 THEN overlap_sentences
    ELSE LET sent_tokens == SentenceTokens(current_chunk[j])
         IN  IF overlap_tokens + sent_tokens <= chunk_overlap
             THEN OverlapLoop(current_chunk, j - 1,
                              <<current_chunk[j]>> \o overlap_sentences,
                              overlap_tokens + sent_tokens, chunk_overlap)
             ELSE overlap_sentences

\* the loop `for i, sentence in enumerate(sentences)` of SentenceChunker.chunk
\* from sentence i on, and the final chunk of lines 150-156; st holds chunks,
\* current_chunk, current_tokens and whether current_chunk starts with
\* overlap sentences
RECURSIVE SentenceLoop(_, _, _, _)
SentenceLoop(sentences, i, st, c) ==
    IF i > Len(sentences)
    THEN IF st.current_chunk # <<>>
            /\ JoinTokens([j \in 1..Len(st.current_chunk) |->
                              SentenceTokens(st.current_chunk[j])], c.sep)
                   >= c.min_chunk_size
         THEN Append(st.chunks,
                     SentencesChunk(st.current_chunk, c.sep, "final", st.overlap))
         ELSE st.chunks
    ELSE LET sentence == sentences[i]
             sentence_tokens == SentenceTokens(sentence)
             saved == IF st.current_chunk # <<>>
                      THEN Append(st.chunks,
                                  SentencesChunk(st.current_chunk, c.sep,
                                                 "full", st.overlap))
                      ELSE st.chunks
         IN  IF sentence_tokens > c.chunk_size
             THEN SentenceLoop(sentences, i + 1,
                               [chunks |-> saved \o WordChunks(sentence, c.chunk_size),
                                current_chunk |-> <<>>, current_tokens |-> 0,
                                overlap |-> FALSE], c)
             ELSE IF st.current_tokens + sentence_tokens > c.chunk_size
             THEN IF c.chunk_overlap > 0 /\ saved # <<>>
                  THEN LET overlap_sentences ==
                               OverlapLoop(st.current_chunk, Len(st.current_chunk),
                                           <<>>, 0, c.chunk_overlap)
                       IN  SentenceLoop(sentences, i + 1,
                               [chunks |-> saved,
                                current_chunk |-> Append(overlap_sentences, sentence),
                                current_tokens |->
                                    Sum([j \in 1..Len(overlap_sentences) |->
                                            SentenceTokens(overlap_sentences[j])])
                                    + sentence_tokens,
                                overlap |-> overlap_sentences # <<>>], c)
                  ELSE SentenceLoop(sentences, i + 1,
                               [chunks |-> saved, current_chunk |-> <<sentence>>,
                                current_tokens |-> sentence_tokens,
                                overlap |-> FALSE], c)
             ELSE SentenceLoop(sentences, i + 1,
                               [chunks |-> st.chunks,
                                current_chunk |-> Append(st.current_chunk, sentence),
                                current_tokens |-> st.current_tokens + sentence_tokens,
                                overlap |-> st.overlap], c)

\* the state chunk() starts its loop in
LoopStart == [chunks |-> <<>>, current_chunk |-> <<>>, current_tokens |-> 0,
              overlap |-> FALSE]

\* SentenceChunker(chunk_size, chunk_overlap, min_chunk_size).chunk(text)
\* for the text whose sentences sent_tokenize gives as `sentences`
SentenceChunker_chunk(sentences, c) == SentenceLoop(sentences, 1, LoopStart, c)

\* count_tokens(paragraph): a paragraph is the list of its sentences
ParagraphTokens(paragraph, sep) ==
    JoinTokens([j \in 1..Len(paragraph) |-> SentenceTokens(paragraph[j])], sep)

\* _create_chunk('\n\n'.join(current_chunk), ...)
ParagraphsChunk(current_chunk, sep, path) ==
    [content |-> Flatten([i \in 1..Len(current_chunk) |->
                    Flatten([j \in 1..Len(current_chunk[i]) |->
                                WordsOf(current_chunk[i][j])])]),
     token_count |-> JoinTokens([i \in 1..Len(current_chunk) |->
                                    ParagraphTokens(current_chunk[i], sep)], sep),
     path |-> path,
     overlap |-> FALSE]

\* the loop `for paragraph in paragraphs` of SemanticChunker.chunk from
\* paragraph i on, and the final chunk of lines 244-250; a paragraph that is
\* empty once stripped is the empty list of sentences
RECURSIVE ParagraphLoop(_, _, _, _)
ParagraphLoop(paragraphs, i, st, c) ==
    IF i > Len(paragraphs)
    THEN IF st.current_chunk # <<>>
            /\ JoinTokens([j \in 1..Len(st.current_chunk) |->
                              ParagraphTokens(st.current_chunk[j], c.sep)], c.sep)
                   >= c.min_chunk_size
         THEN Append(st.chunks, ParagraphsChunk(st.current_chunk, c.sep, "final"))
         ELSE st.chunks
    ELSE LET paragraph == paragraphs[i]
             para_tokens == ParagraphTokens(paragraph, c.sep)
             saved == IF st.current_chunk # <<>>
                      THEN Append(st.chunks,
                                  ParagraphsChunk(st.current_chunk, c.sep, "full"))
                      ELSE st.chunks
         IN  IF paragraph = <<>>
             THEN ParagraphLoop(paragraphs, i + 1, st, c)
             ELSE IF para_tokens > c.chunk_size
             THEN ParagraphLoop(paragraphs, i + 1,
                                [chunks |-> saved \o SentenceChunker_chunk(paragraph, c),
                                 current_chunk |-> <<>>, current_tokens |-> 0,
                                 overlap |-> FALSE], c)
             ELSE IF st.current_tokens + para_tokens > c.chunk_size
             THEN ParagraphLoop(paragraphs, i + 1,
                                [chunks |-> saved, current_chunk |-> <<paragraph>>,
                                 current_tokens |-> para_tokens,
                                 overlap |-> FALSE], c)
             ELSE ParagraphLoop(paragraphs, i + 1,
                                [chunks |-> st.chunks,
                                 current_chunk |-> Append(st.current_chunk, paragraph),
                                 current_tokens |-> st.current_tokens + para_tokens,
                                 overlap |-> FALSE], c)

\* SemanticChunker(...).chunk(text) for the text that re.split(r'\n\s*\n')
\* cuts into `paragraphs`
SemanticChunker_chunk(paragraphs, c) == ParagraphLoop(paragraphs, 1, LoopStart, c)

\* MarkdownChunker(...).chunk(text): the text is the list of its sections,
\* each from a header line (or the start) to the next header line, and each
\* section goes through a SemanticChunker of the same sizes
MarkdownChunker_chunk(sections, c) ==
    Flatten([s \in 1..Len(sections) |-> SemanticChunker_chunk(sections[s], c)])

(***************************************************************************)
(* CodeChunker.  A line is known by count_tokens(line + '\n'), a blank     *)
(* line counting 1; the token_count of lines joined by '\n' is taken as    *)
(* the sum of these counts.                                                *)
(***************************************************************************)
\* _create_code_chunk('\n'.join(lines), ...): owner names the piece of the
\* text the lines belong to
LinesChunk(owner, positions, lines, path) ==
    [content |-> [j \in 1..Len(positions) |-> <<owner, positions[j]>>],
     token_count |-> Sum([j \in 1..Len(positions) |-> lines[positions[j]]]),
     path |-> path,
     overlap |-> FALSE]

\* the loop `for line in lines` shared by the split of a large structure
\* (lines 410-423) and _chunk_by_lines (lines 461-475): the chunks closed so
\* far and, at the end, the lines still in current_chunk_lines
RECURSIVE LineLoop(_, _, _, _, _, _, _, _)
LineLoop(owner, lines, k, current_chunk_lines, current_tokens, chunks, chunk_size, path) ==
    IF k > Len(lines)
    THEN IF current_chunk_lines # <<>>
         THEN Append(chunks, LinesChunk(owner, current_chunk_lines, lines, path))
         ELSE chunks
    ELSE LET line_tokens == lines[k]
         IN  IF current_tokens + line_tokens > chunk_size
                /\ current_chunk_lines # <<>>
             THEN LineLoop(owner, lines, k + 1, <<k>>, line_tokens,
                           Append(chunks, LinesChunk(owner, current_chunk_lines,
                                                     lines, path)),
                           chunk_size, path)
             ELSE LineLoop(owner, lines, k + 1, Append(current_chunk_lines, k),
                           current_tokens + line_tokens, chunks, chunk_size, path)

\* CodeChunker._chunk_by_lines(text): text.split('\n') always has a line
_chunk_by_lines(lines, c) ==
    LineLoop(1, lines, 1, <<>>, 0, <<>>, c.chunk_size, "code")

\* a piece of a Python text is blank when strip() leaves nothing of it
IsBlank(piece) == \A k \in 1..Len(piece.lines) : piece.lines[k] = 1

\* the positions of all the lines of a piece
AllLines(piece) == [k \in 1..Len(piece.lines) |-> k]

\* CodeChunker._chunk_python(text): the text is the list of its pieces, the
\* matches of the class and def patterns ("structure") and the text outside
\* them ("gap"), in the order of their start
_chunk_python(pieces, c) ==
    LET structures == SelectSeq([p \in 1..Len(pieces) |-> p],
                                LAMBDA p : pieces[p].kind = "structure")
        first == structures[1]
        last == structures[Len(structures)]
        Merged(from, to, path) ==
            \* text[a:b].strip() over the pieces from..to, one chunk if not blank
            IF \A p \in from..to : IsBlank(pieces[p]) THEN <<>>
            ELSE <<[content |-> Flatten([q \in 1..(to - from + 1) |->
                                   [k \in 1..Len(pieces[from + q - 1].lines) |->
                                       <<from + q - 1, k>>]]),
                    token_count |-> Sum(Flatten([q \in 1..(to - from + 1) |->
                                                    pieces[from + q - 1].lines])),
                    path |-> path,
                    overlap |-> FALSE]>>
        header == IF structures # <<>> /\ first > 1
                  THEN Merged(1, first - 1, "header") ELSE <<>>
        OfStructure(p) ==
            IF Sum(pieces[p].lines) > c.chunk_size
            THEN LineLoop(p, pieces[p].lines, 1, <<>>, 0, <<>>, c.chunk_size,
                          "line_split")
            ELSE <<LinesChunk(p, AllLines(pieces[p]), pieces[p].lines,
                              "structure")>>
        body == Flatten([s \in 1..Len(structures) |-> OfStructure(structures[s])])
        from == IF structures = <<>> THEN 1 ELSE last + 1
        footer == IF from <= Len(pieces)
                  THEN Merged(from, Len(pieces), "footer") ELSE <<>>
    IN  header \o body \o footer

(***************************************************************************)
(* The texts handed to the chunkers and the call of chunk().               *)
(***************************************************************************)
\* largest number of words in a sentence
MaxWords == 2
\* largest number of sentences in a paragraph
MaxSentences == 2
\* largest number of paragraphs in a text
MaxParagraphs == 2
\* largest number of sections in a Markdown text
MaxSections == 2
\* largest number of pieces (structures and the text around them) of a
\* Python text, and of lines of any other code text
MaxPieces == 3

\* count_tokens of a word: short ones and one longer than every chunk_size
WordTokens == {1, 2, 4}

\* count_tokens(line + '\n'): 1 for a blank line
LineTokens == {1, 2, 4}

SeqsUpTo(S, n) == UNION {[1..m -> S] : m \in 0..n}

SentenceKinds == SeqsUpTo(WordTokens, MaxWords) \ {<<>>}

\* a paragraph; the empty one is blank space between two separators
ParagraphKinds == SeqsUpTo(SentenceKinds, MaxSentences)

\* what sent_tokenize makes of a text
SentenceTexts == SeqsUpTo(SentenceKinds, MaxSentences + 1)

SemanticTexts == SeqsUpTo(ParagraphKinds, MaxParagraphs)

\* the sections of a Markdown text, each of at most one paragraph
MarkdownTexts == SeqsUpTo(SeqsUpTo(ParagraphKinds, 1), MaxSections)

\* a class or def with its body starts with a line that is not blank
StructureKinds ==
    {[kind |-> "structure", lines |-> l] :
        l \in {m \in SeqsUpTo(LineTokens, 2) \ {<<>>} : m[1] # 1}}

GapKinds ==
    {[kind |-> "gap", lines |-> l] : l \in SeqsUpTo(LineTokens, 2) \ {<<>>}}

PythonTexts == SeqsUpTo(StructureKinds \cup GapKinds, MaxPieces)

LineTexts == SeqsUpTo(LineTokens, MaxPieces) \ {<<>>}

\* the sizes of a chunker: CHUNK_SIZE 512, CHUNK_OVERLAP 50 or none and
\* min_chunk_size 100, scaled down
ChunkerSizes ==
    [chunk_size : {3}, chunk_overlap : {0, 1}, min_chunk_size : {2}]

\* get_chunker(content_type, ...) and, for code, the language of the metadata
Strategies == {"sentence", "semantic", "markdown", "code_python", "code_lines"}

TextsOf(strategy) ==
    CASE strategy = "sentence" -> SentenceTexts
      [] strategy = "semantic" -> SemanticTexts
      [] strategy = "markdown" -> MarkdownTexts
      [] strategy = "code_python" -> PythonTexts
      [] strategy = "code_lines" -> LineTexts

\* the sentences of a list of word lists, named by prefix and position
Named(prefix, sentences) ==
    [j \in 1..Len(sentences) |-> [id |-> Append(prefix, j), words |-> sentences[j]]]

NamedParagraphs(prefix, paragraphs) ==
    [p \in 1..Len(paragraphs) |-> Named(Append(prefix, p), paragraphs[p])]

\* chunker.chunk(text, metadata)
chunk(in) ==
    CASE in.strategy = "sentence" ->
             SentenceChunker_chunk(Named(<<>>, in.text), in)
      [] in.strategy = "semantic" ->
             SemanticChunker_chunk(NamedParagraphs(<<>>, in.text), in)
      [] in.strategy = "markdown" ->
             MarkdownChunker_chunk([s \in 1..Len(in.text) |->
                                       NamedParagraphs(<<s>>, in.text[s])], in)
      [] in.strategy = "code_python" -> _chunk_python(in.text, in)
      [] in.strategy = "code_lines" -> _chunk_by_lines(in.text, in)

\* a caller hands a text to a chunker
ChunkBegin ==
    /\ chk_pc = "idle"
    /\ \E strategy \in Strategies, sizes \in ChunkerSizes, sep \in 0..1 :
         \E text \in TextsOf(strategy) :
            /\ strategy \in {"code_python", "code_lines"} =>
                   sep = 0 /\ sizes.chunk_overlap = 0
            /\ chk_in' = [strategy |-> strategy, chunk_size |-> sizes.chunk_size,
                          chunk_overlap |-> sizes.chunk_overlap,
                          min_chunk_size |-> sizes.min_chunk_size,
                          sep |-> sep, text |-> text]
    /\ chk_pc' = "chunking"
    /\ chk_out' = <<>>
    /\ UNCHANGED otherThanChk

\* chunk() runs and returns its list
ChunkRun ==
    /\ chk_pc = "chunking"
    /\ chk_out' = chunk(chk_in)
    /\ chk_pc' = "done"
    /\ UNCHANGED chk_in
    /\ UNCHANGED otherThanChk

ChunkOver ==
    /\ chk_pc = "done"
    /\ chk_pc' = "idle"
    /\ chk_in' = NoText
    /\ chk_out' = <<>>
    /\ UNCHANGED otherThanChk

InitChunk ==
    /\ CoreIdle
    /\ HybIdle
    /\ BmIdle
    /\ ChkIdle
    /\ CtxIdle
    /\ DbEmpty
    /\ PsIdle
    /\ RrIdle
    /\ RtIdle

NextChunk ==
    \/ ChunkBegin
    \/ ChunkRun
    \/ ChunkOver

SpecChunk == InitChunk /\ [][NextChunk]_vars

(***************************************************************************)
(* Claims about the chunkers.                                              *)
(***************************************************************************)
ChunkDone == chk_pc = "done"

\* the paths the size bound excepts: the word split of one long sentence and
\* the line split of an oversized code structure
ExceptionPaths == {"word_split", "line_split"}

\* C15: for every strategy and every input each emitted chunk has
\* token_count <= chunk_size, except the chunks of the two exception paths;
\* in particular a chunk that starts with overlap sentences stays within
\* chunk_size.
C15_ChunkSizeBound ==
    ChunkDone =>
        \A i \in 1..Len(chk_out) :
            \/ chk_out[i].token_count <= chk_in.chunk_size
            \/ chk_out[i].path \in ExceptionPaths

\* the failing input of C15: sentences of 2, 1 and 3 tokens, chunk_size 3,
\* chunk_overlap 1; the last chunk starts with the overlap sentence
C15_FailingInput ==
    /\ ChunkDone
    /\ chk_in.strategy = "sentence" /\ chk_in.chunk_overlap = 1 /\ chk_in.sep = 0
    /\ chk_in.text = <<<<1, 1>>, <<1>>, <<1, 2>>>>
    /\ Len(chk_out) = 2
    /\ chk_out[2].overlap /\ chk_out[2].token_count = 4

\* C16: the sentence and semantic strategies emit no chunk of fewer than
\* min_chunk_size tokens unless it is the final remainder: every chunk but
\* the last has token_count >= min_chunk_size.
C16_MinChunkSize ==
    (ChunkDone /\ chk_in.strategy \in {"sentence", "semantic"}) =>
        \A i \in 1..(Len(chk_out) - 1) :
            chk_out[i].token_count >= chk_in.min_chunk_size

\* the failing input of C16: a sentence of 1 token, then one of 3 tokens
C16_FailingInput ==
    /\ ChunkDone
    /\ chk_in.strategy = "sentence" /\ chk_in.chunk_overlap = 0 /\ chk_in.sep = 0
    /\ chk_in.text = <<<<1>>, <<1, 2>>>>
    /\ Len(chk_out) = 2
    /\ chk_out[1].token_count = 1 /\ chk_out[1].path = "full"

\* the words of the sentences of a text, and the lines of a code text that
\* are not blank
InputUnits ==
    CASE chk_in.strategy = "sentence" ->
             {u \in {<<<<i>>, k>> : i \in 1..Len(chk_in.text), k \in 1..MaxWords} :
                 u[2] <= Len(chk_in.text[u[1][1]])}
      [] chk_in.strategy = "semantic" ->
             {u \in {<<<<p, j>>, k>> : p \in 1..Len(chk_in.text),
                                       j \in 1..MaxSentences, k \in 1..MaxWords} :
                 /\ u[1][2] <= Len(chk_in.text[u[1][1]])
                 /\ u[2] <= Len(chk_in.text[u[1][1]][u[1][2]])}
      [] chk_in.strategy = "markdown" ->
             {u \in {<<<<s, p, j>>, k>> : s \in 1..Len(chk_in.text), p \in 1..1,
                                          j \in 1..MaxSentences, k \in 1..MaxWords} :
                 /\ u[1][2] <= Len(chk_in.text[u[1][1]])
                 /\ u[1][3] <= Len(chk_in.text[u[1][1]][u[1][2]])
                 /\ u[2] <= Len(chk_in.text[u[1][1]][u[1][2]][u[1][3]])}
      [] chk_in.strategy = "code_python" ->
             {u \in {<<p, k>> : p \in 1..Len(chk_in.text), k \in 1..2} :
                 /\ u[2] <= Len(chk_in.text[u[1]].lines)
                 /\ chk_in.text[u[1]].lines[u[2]] # 1}
      [] chk_in.strategy = "code_lines" ->
             {u \in {<<1, k>> : k \in 1..Len(chk_in.text)} : chk_in.text[u[2]] # 1}

\* the units some chunk holds
OutputUnits ==
    UNION {{chk_out[i].content[j] : j \in 1..Len(chk_out[i].content)} :
              i \in 1..Len(chk_out)}

\* C17: chunking loses no content: every sentence, paragraph, word and code
\* line of the input appears in some chunk, the final remainder and the code
\* between two top-level structures included.
C17_NoContentLost ==
    ChunkDone => InputUnits \subseteq OutputUnits

\* the failing input of C17: a text of one short paragraph
C17_FailingInput ==
    /\ ChunkDone
    /\ chk_in.strategy = "semantic"
    /\ chk_in.text = <<<<<<1>>>>>>
    /\ chk_out = <<>>

\* code between two top-level structures is in no chunk
C17_GapLost ==
    /\ ChunkDone
    /\ chk_in.strategy = "code_python"
    /\ Len(chk_in.text) = 3
    /\ chk_in.text[1].kind = "structure" /\ chk_in.text[3].kind = "structure"
    /\ chk_in.text[2] = [kind |-> "gap", lines |-> <<2>>]
    /\ <<2, 1>> \notin OutputUnits

\* the text is empty or whitespace only
EmptyInput ==
    CASE chk_in.strategy = "sentence" -> chk_in.text = <<>>
      [] chk_in.strategy = "semantic" ->
             \A p \in 1..Len(chk_in.text) : chk_in.text[p] = <<>>
      [] chk_in.strategy = "markdown" ->
             \A s \in 1..Len(chk_in.text) :
                 \A p \in 1..Len(chk_in.text[s]) : chk_in.text[s][p] = <<>>
      [] chk_in.strategy = "code_python" ->
             \A p \in 1..Len(chk_in.text) :
                 chk_in.text[p].kind = "gap" /\ IsBlank(chk_in.text[p])
      [] chk_in.strategy = "code_lines" ->
             \A k \in 1..Len(chk_in.text) : chk_in.text[k] = 1

\* C18: for every strategy, the line-window fallback of the code strategy
\* included, chunk() on an empty or whitespace-only text returns the empty
\* list.
C18_EmptyInputNoChunks ==
    (ChunkDone /\ EmptyInput) => chk_out = <<>>

\* the failing input of C18: the empty text handed to the line-window
\* fallback, which sees the one line ''
C18_FailingInput ==
    /\ ChunkDone
    /\ chk_in.strategy = "code_lines"
    /\ chk_in.text = <<1>>
    /\ Len(chk_out) = 1 /\ chk_out[1].content = <<<<1, 1>>>>

(***************************************************************************)
(* ProductionRAGEngine._build_context (production_rag_engine.py).  A       *)
(* result is modelled by len(result_text), the length in characters of its *)
(* formatted text "[i] content (source)\n"; a part of the context by the   *)
(* rank of its result, its length and whether it is the truncated form.    *)
(***************************************************************************)
MaxResults == 3

\* the rough token estimation: len(result_text) // 4
CharsPerToken == 4

estimated_tokens(result_text) == result_text \div CharsPerToken

\* available_tokens > 50, the minimum useful context
MinUsefulContext == 50

\* len("...\n"), the marker appended to a truncated text
MarkerChars == 4

\* the variant of the branch below that never adds a truncated version
OnMisfitAlwaysDrops(i, result_text, available_tokens) == <<>>

\* the branch taken by the first result that would exceed the limit: the
\* parts it appends before the loop breaks
OnMisfit(i, result_text, available_tokens) ==
    IF available_tokens > MinUsefulContext
    THEN LET truncated_length == available_tokens * CharsPerToken
             kept == IF truncated_length < result_text THEN truncated_length
                     ELSE result_text
         IN  <<[rank |-> i, chars |-> kept + MarkerChars, truncated |-> TRUE]>>
    ELSE <<>>

\* the loop over search_results from result i on, with the parts appended so
\* far and current_length
RECURSIVE BuildLoop(_, _, _, _, _)
BuildLoop(search_results, max_length, i, context_parts, current_length) ==
    IF i > Len(search_results) THEN context_parts
    ELSE LET result_text == search_results[i]
         IN  IF current_length + estimated_tokens(result_text) > max_length
             THEN context_parts \o OnMisfit(i, result_text, max_length - current_length)
             ELSE BuildLoop(search_results, max_length, i + 1,
                            Append(context_parts,
                                   [rank |-> i, chars |-> result_text,
                                    truncated |-> FALSE]),
                            current_length + estimated_tokens(result_text))

_build_context(search_results, max_length) ==
    IF search_results = <<>> THEN <<>>
    ELSE BuildLoop(search_results, max_length, 1, <<>>, 0)

\* lengths of result_text: 11, 51, 51 and 71 estimated tokens
ResultChars == {44, 204, 207, 284}

\* token budgets a caller passes as max_length
Budgets == {60, 100, 130}

\* a caller hands search results and a budget to _build_context
ContextBegin ==
    /\ ctx_pc = "idle"
    /\ \E n \in 0..MaxResults, max_length \in Budgets :
         \E search_results \in [1..n -> ResultChars] :
            ctx_in' = [results |-> search_results, max_length |-> max_length]
    /\ ctx_pc' = "building"
    /\ ctx_out' = <<>>
    /\ UNCHANGED otherThanCtx

\* _build_context runs and returns
ContextBuild ==
    /\ ctx_pc = "building"
    /\ ctx_out' = _build_context(ctx_in.results, ctx_in.max_length)
    /\ ctx_pc' = "done"
    /\ UNCHANGED ctx_in
    /\ UNCHANGED otherThanCtx

ContextOver ==
    /\ ctx_pc = "done"
    /\ ctx_pc' = "idle"
    /\ ctx_in' = NoResults
    /\ ctx_out' = <<>>
    /\ UNCHANGED otherThanCtx

InitContext ==
    /\ CoreIdle
    /\ ExtIdle

NextContext ==
    \/ ContextBegin
    \/ ContextBuild
    \/ ContextOver

SpecContext == InitContext /\ [][NextContext]_vars

(***************************************************************************)
(* Claims about the assembly of the context.                               *)
(***************************************************************************)
ContextDone == ctx_pc = "done"

\* the estimated tokens of the first n results
TokensOfFirst(n) ==
    Sum([i \in 1..n |-> estimated_tokens(ctx_in.results[i])])

\* the number of leading results that fit the budget together
Fitting ==
    CHOOSE n \in 0..Len(ctx_in.results) :
        /\ TokensOfFirst(n) <= ctx_in.max_length
        /\ n < Len(ctx_in.results) => TokensOfFirst(n + 1) > ctx_in.max_length

\* the budget left after the results that fit
Remaining == ctx_in.max_length - TokensOfFirst(Fitting)

\* the leading results that fit are the first parts, whole and in rank order
WholeInRankOrder ==
    /\ Len(ctx_out) >= Fitting
    /\ \A i \in 1..Fitting :
         ctx_out[i] = [rank |-> i, chars |-> ctx_in.results[i], truncated |-> FALSE]

\* the first result that does not fit is the last part, cut to the remaining
\* budget and followed by the marker
TruncatedIncluded ==
    /\ Len(ctx_out) = Fitting + 1
    /\ ctx_out[Fitting + 1] = [rank |-> Fitting + 1,
                               chars |-> Remaining * CharsPerToken + MarkerChars,
                               truncated |-> TRUE]

\* C19 as stated: results are included greedily in rank order; the first
\* result that does not fit the remaining token budget is included in
\* truncated form whenever some budget remains; nothing after it is included
C19_AsStated ==
    ContextDone =>
        /\ WholeInRankOrder
        /\ IF Fitting < Len(ctx_in.results) /\ Remaining > 0
           THEN TruncatedIncluded
           ELSE Len(ctx_out) = Fitting

\* C19: results are included greedily in rank order; the first result that
\* does not fit the remaining token budget is included in truncated form, cut
\* to four characters per remaining token and followed by the marker, when
\* more than 50 tokens of the budget remain, and is dropped otherwise; no
\* result ranked after it is included
C19_TruncatedAboveMinimum ==
    ContextDone =>
        /\ WholeInRankOrder
        /\ IF Fitting < Len(ctx_in.results) /\ Remaining > MinUsefulContext
           THEN TruncatedIncluded
           ELSE Len(ctx_out) = Fitting

\* a result did not fit and its truncated form closes the context
C19_Witness ==
    /\ ContextDone
    /\ Fitting < Len(ctx_in.results)
    /\ Fitting >= 1
    /\ ctx_out # <<>>
    /\ ctx_out[Len(ctx_out)].truncated

\* a result did not fit, budget remained and it was dropped
C19_DroppedWithBudgetLeft ==
    /\ ContextDone
    /\ Fitting < Len(ctx_in.results)
    /\ Remaining > 0
    /\ Len(ctx_out) = Fitting

(***************************************************************************)
(* The store of database.py (tables agents, conversations, messages and    *)
(* knowledge_documents) and the requests that write it: the agent routes   *)
(* of agent_routes.py, the chat socket of main.py and the ingestion routes *)
(* of knowledge_routes.py.  An id generated by uuid4 or by autoincrement   *)
(* is never used twice; the id of a conversation or document is modelled   *)
(* by its agent and a number, the id of a message by its conversation and  *)
(* a number.                                                               *)
(***************************************************************************)
MaxRows == 1

Users == {"u1", "u2"}

AgentIds == {"a1", "a2"}

\* the rows of a table that name the agent in their column agent_id
RowsOfAgent(table, agent_id) == {row \in table : row.agent_id = agent_id}

\* the rows of messages that name the conversation in conversation_id
MessagesOf(conversation_id) ==
    {row \in db_messages : row.conversation_id = conversation_id}

\* select(Agent).where(Agent.id == agent_id, Agent.user_id == user.id)
AgentOfUser(agent_id, user) ==
    agent_id \in DOMAIN db_agents /\ db_agents[agent_id] = user

\* POST /api/agents: 403 when the billing limit is reached, else a new row
CreateAgent ==
    \E user \in Users, can_create \in BOOLEAN :
        \E agent_id \in AgentIds \ (DOMAIN db_agents \cup api_deleted) :
            /\ IF can_create
               THEN /\ db_agents' = [a \in DOMAIN db_agents \cup {agent_id} |->
                                        IF a = agent_id THEN user ELSE db_agents[a]]
                    /\ api_response' = [op |-> "create", user |-> user,
                                        agent_id |-> agent_id, status |-> 201]
               ELSE /\ db_agents' = db_agents
                    /\ api_response' = [op |-> "create", user |-> user,
                                        agent_id |-> "none", status |-> 403]
            /\ UNCHANGED <<db_conversations, db_messages, db_documents, api_deleted>>
            /\ UNCHANGED otherThanDel

\* websocket_endpoint: a visitor connects and a conversation row is added;
\* agent_id is a foreign key, the agent has to exist for the commit to succeed
StartConversation ==
    \E agent_id \in DOMAIN db_agents :
        LET n == Cardinality(RowsOfAgent(db_conversations, agent_id)) + 1
        IN  /\ n <= MaxRows
            /\ db_conversations' = db_conversations \cup
                   {[id |-> <<agent_id, n>>, agent_id |-> agent_id]}
            /\ UNCHANGED <<db_agents, db_messages, db_documents, api_response,
                           api_deleted>>
            /\ UNCHANGED otherThanDel

\* websocket_endpoint: a message of the conversation is stored;
\* conversation_id is a foreign key
StoreMessage ==
    \E conversation \in db_conversations :
        LET n == Cardinality(MessagesOf(conversation.id)) + 1
        IN  /\ n <= MaxRows
            /\ db_messages' = db_messages \cup
                   {[id |-> <<conversation.id, n>>, conversation_id |-> conversation.id]}
            /\ UNCHANGED <<db_agents, db_conversations, db_documents, api_response,
                           api_deleted>>
            /\ UNCHANGED otherThanDel

\* the ingestion routes: the user owns the agent, and ingest_document adds a
\* knowledge document whose agent_id is the agent
IngestDocument ==
    \E user \in Users, agent_id \in AgentIds :
        LET n == Cardinality(RowsOfAgent(db_documents, agent_id)) + 1
        IN  /\ AgentOfUser(agent_id, user)
            /\ n <= MaxRows
            /\ db_documents' = db_documents \cup
                   {[id |-> <<agent_id, n>>, agent_id |-> agent_id]}
            /\ UNCHANGED <<db_agents, db_conversations, db_messages, api_response,
                           api_deleted>>
            /\ UNCHANGED otherThanDel

\* the rows session.delete(agent) removes with the agent: relationship
\* Agent.conversations and relationship Conversation.messages cascade
\* "all, delete-orphan"; KnowledgeDocument has no relationship and no foreign
\* key to agents
CascadeConversations(agent_id) == RowsOfAgent(db_conversations, agent_id)

CascadeMessages(agent_id) ==
    {row \in db_messages :
        \E conversation \in CascadeConversations(agent_id) :
            row.conversation_id = conversation.id}

CascadeDocuments(agent_id) == {}

\* DELETE /api/agents/{agent_id}
DeleteAgent ==
    \E user \in Users, agent_id \in AgentIds, commit_ok \in BOOLEAN :
        /\ IF ~AgentOfUser(agent_id, user)
           THEN /\ api_response' = [op |-> "delete", user |-> user,
                                    agent_id |-> agent_id, status |-> 404]
                /\ UNCHANGED <<db_agents, db_conversations, db_messages,
                               db_documents, api_deleted>>
           ELSE IF ~commit_ok
           THEN /\ api_response' = [op |-> "delete", user |-> user,
                                    agent_id |-> agent_id, status |-> 500]
                /\ UNCHANGED <<db_agents, db_conversations, db_messages,
                               db_documents, api_deleted>>
           ELSE /\ db_agents' = [a \in DOMAIN db_agents \ {agent_id} |-> db_agents[a]]
                /\ db_conversations' = db_conversations \ CascadeConversations(agent_id)
                /\ db_messages' = db_messages \ CascadeMessages(agent_id)
                /\ db_documents' = db_documents \ CascadeDocuments(agent_id)
                /\ api_response' = [op |-> "delete", user |-> user,
                                    agent_id |-> agent_id, status |-> 200]
                /\ api_deleted' = api_deleted \cup {agent_id}
        /\ UNCHANGED otherThanDel

\* GET /api/agents/{agent_id}
GetAgent ==
    \E user \in Users, agent_id \in AgentIds :
        /\ api_response' = [op |-> "get", user |-> user, agent_id |-> agent_id,
                            status |-> IF AgentOfUser(agent_id, user) THEN 200
                                       ELSE 404]
        /\ UNCHANGED <<db_agents, db_conversations, db_messages, db_documents,
                       api_deleted>>
        /\ UNCHANGED otherThanDel

InitDelete ==
    /\ CoreIdle
    /\ ExtIdle

NextDelete ==
    \/ CreateAgent
    \/ StartConversation
    \/ StoreMessage
    \/ IngestDocument
    \/ DeleteAgent
    \/ GetAgent

SpecDelete == InitDelete /\ [][NextDelete]_vars

(***************************************************************************)
(* Claims about the deletion of an agent.                                  *)
(***************************************************************************)
\* the rows of messages written for a conversation of the agent
MessagesOfAgent(agent_id) ==
    {row \in db_messages : row.conversation_id[1] = agent_id}

\* a GET of a deleted agent answers 404
GetAnswers404 ==
    (api_response.op = "get" /\ api_response.agent_id \in api_deleted)
        => api_response.status = 404

\* C20: after DELETE /api/agents/{id} has succeeded for the owning user, a
\* GET of that agent returns 404 and none of its conversations, their
\* messages, or its knowledge documents remain in the store
C20_AgentDataGone ==
    /\ GetAnswers404
    /\ \A agent_id \in api_deleted :
         /\ agent_id \notin DOMAIN db_agents
         /\ RowsOfAgent(db_conversations, agent_id) = {}
         /\ MessagesOfAgent(agent_id) = {}
         /\ RowsOfAgent(db_documents, agent_id) = {}

\* the owner's DELETE of an agent with a knowledge document has answered 200
\* and the document is still in the store
C20_FailingInput ==
    /\ api_response.op = "delete"
    /\ api_response.status = 200
    /\ RowsOfAgent(db_documents, api_response.agent_id) # {}

\* the part that holds: the agent, its conversations and their messages are
\* gone and a GET answers 404
C20_ConversationsGone ==
    /\ GetAnswers404
    /\ \A agent_id \in api_deleted :
         /\ agent_id \notin DOMAIN db_agents
         /\ RowsOfAgent(db_conversations, agent_id) = {}
         /\ MessagesOfAgent(agent_id) = {}

\* an agent has been deleted by its owner and a GET of it has been answered
C20_DeletedAndAsked ==
    /\ api_response.op = "get"
    /\ api_response.agent_id \in api_deleted

(***************************************************************************)
(* Claims about the batching of the ingestion.                             *)
(***************************************************************************)
\* the batches of the chunk list that hold chunk c
BatchesHolding(c) ==
    {i \in BatchStarts(ing_chunks) : c \in BatchOf(i, ing_chunks)}

\* the batch at i is a run of consecutive chunks, between 1 and batch_size
IsConsecutiveRun(i) ==
    LET batch == BatchOf(i, ing_chunks)
    IN  /\ batch # {}
        /\ Cardinality(batch) <= batch_size
        /\ \A c, d \in batch : \A e \in 1..ing_chunks : (c < e /\ e < d) => e \in batch

\* C21: ingest_document partitions the ordered chunk list into consecutive
\* batches of at most 10 chunks, every chunk belonging to exactly one batch
\* and chunk order being kept; the batches run strictly one after another:
\* while a batch is embedded or persisted every earlier batch has finished
\* and no later batch has started.
C21_BatchesInSequence ==
    /\ \A c \in 1..ing_chunks : Cardinality(BatchesHolding(c)) = 1
    /\ \A i \in BatchStarts(ing_chunks) : IsConsecutiveRun(i)
    /\ \A i, j \in BatchStarts(ing_chunks) :
          i < j => \A c \in BatchOf(i, ing_chunks), d \in BatchOf(j, ing_chunks) : c < d
    /\ ing_batches_done \subseteq BatchStarts(ing_chunks)
    /\ ing_pc \in {"embed", "persist"} =>
          /\ ing_i \in BatchStarts(ing_chunks)
          /\ ing_batches_done = {j \in BatchStarts(ing_chunks) : j < ing_i}

\* the second batch of an 11-chunk document is being embedded after the first
\* batch of 10 has finished with a failure
C21_Witness ==
    /\ ing_pc = "embed"
    /\ ing_chunks = 11
    /\ ing_i = batch_size
    /\ ing_batches_done = {0}
    /\ ing_batch_failed = {0}

(***************************************************************************)
(* Claims about embed_texts of the cached embedding provider.              *)
(***************************************************************************)
\* a step in which embed_texts(texts) runs through the cache
EmbedTextsStep ==
    /\ emb_pc = "idle"
    /\ CacheActive
    /\ emb_call'.kind = "many"

\* the positions of the call's texts whose content is in the cache when the
\* call starts, whoever stored it
CachedPositions ==
    {i \in 1..Len(emb_call'.texts) : cache[get_cache_key(emb_call'.texts[i])] # None}

\* the positions of the call's texts whose cache read returns a value
HitPositions ==
    {i \in 1..Len(emb_call'.texts) : emb_call'.get[i] = "hit"}

\* the texts at the positions `served` come from the cache and are not sent
\* to the provider, the other texts are sent in input order, the provider is
\* not invoked when there is none, and a call that returns gives one vector
\* per text in input order
ServedFromCache(served) ==
    LET call == emb_call'
        n == Len(call.texts)
    IN  /\ Range(call.unc) = (1..n) \ served
        /\ \A j, k \in 1..Len(call.unc) : j < k => call.unc[j] < call.unc[k]
        /\ served = 1..n => call.prov = "none"
        /\ ~call.raised =>
              /\ Len(call.result) = n
              /\ \A i \in served :
                    call.result[i] = JsonLoads(cache[get_cache_key(call.texts[i])])
              /\ \A j \in 1..Len(call.unc) : call.result[call.unc[j]] = call.new[j]

\* C22 as stated: every text whose content is already cached is served from
\* the cache and is not sent to the underlying provider; only the uncached
\* texts are sent, and when every text is cached the provider is not invoked;
\* the call returns one vector per input text, in input order
C22_AsStated == [][EmbedTextsStep => ServedFromCache(CachedPositions)]_vars

\* C22: the cache key depends only on the text, so a text is found in the
\* cache whoever stored it; every text whose cache read returns a value is
\* served from the cache and is not sent to the underlying provider; the
\* texts whose read finds nothing or raises are sent, in input order, and
\* when every read returns a value the provider is not invoked; the call
\* returns one vector per input text, in input order
C22_ServedWhenReadSucceeds ==
    [][EmbedTextsStep =>
          /\ HitPositions \subseteq CachedPositions
          /\ \A i \in CachedPositions \ HitPositions : emb_call'.get[i] = "fail"
          /\ ServedFromCache(HitPositions)]_vars

\* embed_texts("a", "b") has returned: "a" came from the cache, where an
\* earlier embed_text("a") had put it, and only "b" was sent to the provider
C22_Witness ==
    /\ emb_pc = "returned"
    /\ emb_call.kind = "many"
    /\ emb_call.texts = <<"a", "b">>
    /\ emb_call.get = <<"hit", "miss">>
    /\ emb_call.unc = <<2>>
    /\ emb_call.prov = "ok"
    /\ Len(emb_call.result) = 2

\* a cached text whose read raised has been sent to the provider
C22_CachedButSent ==
    /\ emb_pc = "returned"
    /\ emb_call.kind = "many"
    /\ emb_call.texts = <<"a">>
    /\ emb_call.get = <<"fail">>
    /\ emb_call.unc = <<1>>
    /\ cache[get_cache_key("a")] # None

(***************************************************************************)
(* ProductionRAGEngine.search and the limits it hands down to              *)
(* HybridSearchEngine.search (production_rag_engine.py, hybrid_search.py). *)
(* The store is modelled by the number of rows of the agent that have an   *)
(* embedding and the number of rows whose content holds a query token.     *)
(***************************************************************************)
MaxK == 2

MaxRowsSearched == 9

\* k = k or self.top_k
EffectiveK(k) == IF k = 0 THEN TOP_K_RETRIEVAL ELSE k

\* the k handed to search_engine.search: k * 2 if use_reranking else k
EngineK(k, use_reranking) == IF use_reranking THEN k * 2 ELSE k

\* the keyword_k handed to search_engine.search: k * 3
KeywordK(k) == k * 3

\* the variant in which the vector query is limited to the engine's k
VectorLimitIsK(engine_k) == engine_k

\* HybridSearchEngine.search hands k * 2 to _vector_search as its limit
VectorLimit(engine_k) == engine_k * 2

\* query.limit(k): at most k of the rows
Limited(rows, k) == IF rows < k THEN rows ELSE k

\* a caller enters search(query, agent_id, k, use_reranking); k = 0 stands
\* for a call without k
PsBegin ==
    /\ ps_pc = "idle"
    /\ \E k \in 0..MaxK, use_reranking \in BOOLEAN,
          with_embedding \in 0..MaxRowsSearched, with_token \in 0..MaxRowsSearched :
          ps_in' = [k |-> EffectiveK(k), use_reranking |-> use_reranking,
                    with_embedding |-> with_embedding, with_token |-> with_token]
    /\ ps_pc' = "embed_query"
    /\ ps_run' = NoRun
    /\ UNCHANGED otherThanPs

\* query_embedding = await self.embedding_provider.embed_text(query); the
\* except branch of search() returns []
PsEmbedQuery ==
    /\ ps_pc = "embed_query"
    /\ \E ok \in BOOLEAN :
         IF ok THEN /\ ps_pc' = "hybrid"
                    /\ UNCHANGED ps_run
         ELSE /\ ps_pc' = "returned"
              /\ ps_run' = [ps_run EXCEPT !.returned = 0]
    /\ UNCHANGED ps_in
    /\ UNCHANGED otherThanPs

\* results = await self.search_engine.search(...): the two queries with
\* their limits, the combination (common is the number of rows returned by
\* both queries) and the cut to the engine's k; what search_engine.search
\* raises ends in the except branch of search()
PsHybrid ==
    /\ ps_pc = "hybrid"
    /\ LET engine_k == EngineK(ps_in.k, ps_in.use_reranking)
           vector_limit == VectorLimit(engine_k)
           keyword_limit == KeywordK(ps_in.k)
       IN  \E vector_ok \in BOOLEAN, keyword_ok \in BOOLEAN, combine_ok \in BOOLEAN :
             LET vector_results == IF vector_ok
                                   THEN Limited(ps_in.with_embedding, vector_limit)
                                   ELSE 0
                 keyword_results == IF keyword_ok
                                    THEN Limited(ps_in.with_token, keyword_limit)
                                    ELSE 0
             IN  \E common \in 0..Limited(vector_results, keyword_results) :
                   LET combined == vector_results + keyword_results - common
                       results == Limited(combined, engine_k)
                       ran == [ps_run EXCEPT !.vector_limit = vector_limit,
                                             !.keyword_limit = keyword_limit,
                                             !.vector_results = vector_results,
                                             !.keyword_results = keyword_results]
                   IN  IF ~combine_ok
                       THEN /\ ps_run' = [ran EXCEPT !.returned = 0]
                            /\ ps_pc' = "returned"
                       ELSE IF ps_in.use_reranking /\ results > 0
                       THEN /\ ps_run' = [ran EXCEPT !.to_reranker = results]
                            /\ ps_pc' = "rerank"
                       ELSE /\ ps_run' = [ran EXCEPT !.returned =
                                                        Limited(results, ps_in.k)]
                            /\ ps_pc' = "returned"
    /\ UNCHANGED ps_in
    /\ UNCHANGED otherThanPs

\* results = await self.reranker.rerank(query, results, k); return results[:k]
PsRerank ==
    /\ ps_pc = "rerank"
    /\ \E ok \in BOOLEAN :
         ps_run' = [ps_run EXCEPT !.returned =
                       IF ok THEN Limited(Limited(ps_run.to_reranker, ps_in.k), ps_in.k)
                       ELSE 0]
    /\ ps_pc' = "returned"
    /\ UNCHANGED ps_in
    /\ UNCHANGED otherThanPs

\* the caller has the list
PsOver ==
    /\ ps_pc = "returned"
    /\ ps_pc' = "idle"
    /\ ps_in' = NoQuery
    /\ ps_run' = NoRun
    /\ UNCHANGED otherThanPs

InitOverFetch ==
    /\ CoreIdle
    /\ ExtIdle

NextOverFetch ==
    \/ PsBegin
    \/ PsEmbedQuery
    \/ PsHybrid
    \/ PsRerank
    \/ PsOver

SpecOverFetch == InitOverFetch /\ [][NextOverFetch]_vars

(***************************************************************************)
(* Claims about the candidate over-fetch.                                  *)
(***************************************************************************)
\* the two queries of the call have been issued
QueriesIssued == ps_pc \in {"rerank", "returned"} /\ ps_run.keyword_limit > 0

\* what the claim says of the lists: at most 2k results go to the re-ranker
\* and at most k are returned
ListsBounded ==
    /\ ps_run.to_reranker <= 2 * ps_in.k
    /\ ps_run.returned <= ps_in.k
    /\ ps_run.vector_results <= ps_run.vector_limit
    /\ ps_run.keyword_results <= ps_run.keyword_limit

\* C23 as stated: for a search asking for k results, the vector query is
\* limited to 2k candidates and the keyword query to 3k, whether re-ranking
\* is enabled or not; the list handed to the re-ranker has at most 2k results
\* and the list returned at most k
C23_AsStated ==
    QueriesIssued =>
        /\ ps_run.vector_limit = 2 * ps_in.k
        /\ ps_run.keyword_limit = 3 * ps_in.k
        /\ ListsBounded

\* C23: for a search asking for k results, the vector query is limited to 4k
\* candidates with re-ranking enabled and to 2k without, and the keyword
\* query to 3k in both cases; with re-ranking enabled the list handed to the
\* re-ranker has at most 2k results, and the list returned has at most k
C23_OverFetch ==
    QueriesIssued =>
        /\ ps_run.vector_limit = IF ps_in.use_reranking THEN 4 * ps_in.k
                                 ELSE 2 * ps_in.k
        /\ ps_run.keyword_limit = 3 * ps_in.k
        /\ ListsBounded

\* a search for 2 results with re-ranking: the vector query returned 8 rows,
\* 4 results went to the re-ranker and 2 were returned
C23_Witness ==
    /\ ps_pc = "returned"
    /\ ps_in.k = 2
    /\ ps_in.use_reranking
    /\ ps_run.vector_results = 8
    /\ ps_run.to_reranker = 4
    /\ ps_run.returned = 2

(***************************************************************************)
(* Claims about the shape of the list search() returns.                    *)
(***************************************************************************)
\* search() has returned a list
HybReturned == hyb_pc = "done" /\ hyb_out.kind = "returned"

\* the document is in the list of a query
ReturnedBy(results, id) == \E i \in 1..Len(results) : results[i].id = id

\* the score a query gave the document, divided by the best score of the query
NormalisedScore(results, id) ==
    FDiv(ScoreOf(results, id).value, MaxScore(results).value)

\* C24: the list search() returns has at most k results, is sorted by
\* combined_score in non-increasing order and holds each document id at most
\* once; a document returned by both queries is one result carrying both of
\* its scores, and every returned document came from one of the two queries.
C24_ResultShape ==
    HybReturned =>
        /\ Len(hyb_out.docs) <= hyb_in.k
        /\ \A i, j \in 1..Len(hyb_out.docs) :
              i < j => ~FGreater(hyb_out.docs[j].score.value,
                                 hyb_out.docs[i].score.value)
        /\ \A i, j \in 1..Len(hyb_out.docs) :
              i # j => hyb_out.docs[i].id # hyb_out.docs[j].id
        /\ \A i \in 1..Len(hyb_out.docs) :
              LET doc == hyb_out.docs[i]
              IN  /\ \/ ReturnedBy(hyb_vector_results, doc.id)
                     \/ ReturnedBy(hyb_keyword_results, doc.id)
                  /\ ReturnedBy(hyb_vector_results, doc.id) =>
                        FEqual(doc.vector_score,
                               NormalisedScore(hyb_vector_results, doc.id))
                  /\ ReturnedBy(hyb_keyword_results, doc.id) =>
                        FEqual(doc.keyword_score,
                               NormalisedScore(hyb_keyword_results, doc.id))

\* two documents returned by both queries come back as two results, the
\* better one first, and the vector query had ranked them the other way
C24_Witness ==
    /\ HybReturned
    /\ Len(hyb_out.docs) = 2
    /\ \A i \in 1..2 : /\ ReturnedBy(hyb_vector_results, hyb_out.docs[i].id)
                       /\ ReturnedBy(hyb_keyword_results, hyb_out.docs[i].id)
    /\ FGreater(hyb_out.docs[1].score.value, hyb_out.docs[2].score.value)
    /\ hyb_vector_results[1].id = hyb_out.docs[2].id

\* one result of two candidates is returned for k = 1
C24_WitnessCut ==
    /\ HybReturned
    /\ hyb_in.k = 1
    /\ Len(hyb_out.docs) = 1
    /\ Len(hyb_vector_results) = 2

(***************************************************************************)
(* ReRanker.rerank with use_cross_encoder off: _feature_rerank             *)
(* (hybrid_search.py).  A result is modelled by its document id, its       *)
(* incoming combined_score and the values of the five features.            *)
(***************************************************************************)
MaxReranked == 2

\* 0.3 exact_match + 0.2 query_coverage + 0.2 position_score
\* + 0.1 length_penalty + 0.2 freshness
FeatureScore(features) ==
    FAdd(FMul(<<3, 10>>, features.exact_match),
    FAdd(FMul(<<2, 10>>, features.query_coverage),
    FAdd(FMul(<<2, 10>>, features.position_score),
    FAdd(FMul(<<1, 10>>, features.length_penalty),
         FMul(<<2, 10>>, features.freshness)))))

\* result.combined_score = 0.6 * result.combined_score + 0.4 * feature_score
BlendWithFeatures(combined_score, feature_score) ==
    FAdd(FMul(<<6, 10>>, combined_score), FMul(<<4, 10>>, feature_score))

\* return results[:top_k] if top_k else results
CutToTopK(results, top_k) ==
    IF top_k.given /\ top_k.value # 0 THEN Head_k(results, top_k.value)
    ELSE results

\* _feature_rerank: every result gets its new score, the list is sorted by
\* it, best first, and cut
_feature_rerank(results, top_k) ==
    LET rescored == [i \in 1..Len(results) |->
                        [id |-> results[i].id,
                         score |-> [value |-> BlendWithFeatures(
                                                  results[i].combined_score,
                                                  FeatureScore(results[i].features)),
                                    np |-> FALSE]]]
    IN  CutToTopK(SortDesc(rescored), top_k)

\* the features of a content for a query: no query token in a short content;
\* half of the tokens, the first of them in the middle; the whole query at
\* the start; every token, none at the start, in a very long content
\* (_calculate_freshness returns 0.5 in every case)
FeatureKinds ==
    {[exact_match |-> <<0, 1>>, query_coverage |-> <<0, 1>>,
      position_score |-> <<0, 1>>, length_penalty |-> <<1, 2>>,
      freshness |-> <<1, 2>>],
     [exact_match |-> <<0, 1>>, query_coverage |-> <<1, 2>>,
      position_score |-> <<1, 2>>, length_penalty |-> <<1, 1>>,
      freshness |-> <<1, 2>>],
     [exact_match |-> <<1, 1>>, query_coverage |-> <<1, 1>>,
      position_score |-> <<1, 1>>, length_penalty |-> <<1, 1>>,
      freshness |-> <<1, 2>>],
     [exact_match |-> <<0, 1>>, query_coverage |-> <<1, 1>>,
      position_score |-> <<1, 2>>, length_penalty |-> <<7, 10>>,
      freshness |-> <<1, 2>>]}

\* combined scores search() hands over
IncomingScores == {<<-1, 2>>, <<1, 2>>, <<3, 4>>, <<1, 1>>}

\* a caller hands a list of results, each of another document, to rerank
RerankBegin ==
    /\ rr_pc = "idle"
    /\ \E n \in 0..MaxReranked :
       \E scores \in [1..n -> IncomingScores], features \in [1..n -> FeatureKinds],
          top_k \in {TopKOmitted} \cup [given : {TRUE}, value : 0..(MaxReranked + 1)] :
            rr_in' = [results |-> [i \in 1..n |->
                                      [id |-> i, combined_score |-> scores[i],
                                       features |-> features[i]]],
                      top_k |-> top_k]
    /\ rr_pc' = "ranking"
    /\ rr_out' = <<>>
    /\ UNCHANGED otherThanRr

\* rerank runs and returns its list
RerankRun ==
    /\ rr_pc = "ranking"
    /\ rr_out' = _feature_rerank(rr_in.results, rr_in.top_k)
    /\ rr_pc' = "done"
    /\ UNCHANGED rr_in
    /\ UNCHANGED otherThanRr

RerankOver ==
    /\ rr_pc = "done"
    /\ rr_pc' = "idle"
    /\ rr_in' = NoRerank
    /\ rr_out' = <<>>
    /\ UNCHANGED otherThanRr

InitRerank ==
    /\ CoreIdle
    /\ ExtIdle

NextRerank ==
    \/ RerankBegin
    \/ RerankRun
    \/ RerankOver

SpecRerank == InitRerank /\ [][NextRerank]_vars

(***************************************************************************)
(* Claims about the re-ranker.                                             *)
(***************************************************************************)
RerankDone == rr_pc = "done"

\* the list holds results of the input only, none twice, each with 0.6 times
\* its incoming score plus 0.4 times its feature score, best first
RescoredAndSorted ==
    /\ \A i \in 1..Len(rr_out) :
          /\ rr_out[i].id \in 1..Len(rr_in.results)
          /\ FEqual(FMul(<<10, 1>>, rr_out[i].score.value),
                    FAdd(FMul(<<6, 1>>, rr_in.results[rr_out[i].id].combined_score),
                         FMul(<<4, 1>>,
                              FeatureScore(rr_in.results[rr_out[i].id].features))))
    /\ \A i, j \in 1..Len(rr_out) : i # j => rr_out[i].id # rr_out[j].id
    /\ \A i, j \in 1..Len(rr_out) :
          i < j => ~FGreater(rr_out[j].score.value, rr_out[i].score.value)

\* C25: each result's new combined_score is 0.6 times its incoming
\* combined_score plus 0.4 times its feature score; the returned list is
\* sorted by the new score in non-increasing order, contains only results of
\* the input list with none duplicated, and has at most top_k results
\* whenever top_k is given (all of them when top_k is omitted).
C25_RerankShape ==
    RerankDone =>
        /\ RescoredAndSorted
        /\ rr_in.top_k.given => Len(rr_out) <= rr_in.top_k.value
        /\ ~rr_in.top_k.given => Len(rr_out) = Len(rr_in.results)

\* rerank(query, results, top_k=0) has returned a list that is not empty
C25_FailingInput ==
    /\ RerankDone
    /\ rr_in.top_k = [given |-> TRUE, value |-> 0]
    /\ Len(rr_in.results) = 2
    /\ Len(rr_out) = 2

\* the part that holds: the scores, the order, and the cut for a top_k that
\* is not 0
C25_ShapeForPositiveTopK ==
    RerankDone =>
        /\ RescoredAndSorted
        /\ (rr_in.top_k.given /\ rr_in.top_k.value > 0) =>
              Len(rr_out) = (IF rr_in.top_k.value < Len(rr_in.results)
                             THEN rr_in.top_k.value ELSE Len(rr_in.results))
        /\ ~rr_in.top_k.given => Len(rr_out) = Len(rr_in.results)

\* the re-ranker has put the second of two results first and cut the list to 1
C25_Reordered ==
    /\ RerankDone
    /\ Len(rr_in.results) = 2
    /\ rr_in.top_k = [given |-> TRUE, value |-> 1]
    /\ Len(rr_out) = 1
    /\ rr_out[1].id = 2
    /\ FGreater(rr_in.results[1].combined_score, rr_in.results[2].combined_score)

(***************************************************************************)
(* MarkdownChunker.chunk with fenced code blocks.  The text is the list of *)
(* its blocks, which blank lines separate: a header line, a paragraph of   *)
(* prose, or a fenced code block.  A block is known by the token counts of *)
(* its parts (a fenced block has one part more for each blank line inside  *)
(* it) and by whether one of its lines starts with '#'.                    *)
(***************************************************************************)
MaxBlocks == 3

\* re.sub(code_pattern, replace_code, text): every fenced block is taken out
\* into code_blocks and a placeholder that names its index is left
replace_code(text) ==
    LET fenced == SelectSeq([b \in 1..Len(text) |-> b],
                            LAMBDA b : text[b].kind = "fence")
        IndexOf(b) == CHOOSE i \in 1..Len(fenced) : fenced[i] = b
    IN  [code_blocks |-> [i \in 1..Len(fenced) |-> text[fenced[i]]],
         text_no_code |->
             [b \in 1..Len(text) |->
                 IF text[b].kind = "fence"
                 THEN [kind |-> "placeholder", pos |-> b, parts |-> <<IndexOf(b)>>,
                       hash |-> FALSE]
                 ELSE text[b]]]

\* re.match(header_pattern, line) for a line of the block: a header line, or
\* a line of a fenced block that starts with '#'
HeaderMatch(block) ==
    block.kind = "header" \/ (block.kind = "fence" /\ block.hash)

\* the loop `for line in text_no_code.split('\n')` from block b on, and the
\* last section
RECURSIVE SplitByHeaders(_, _, _, _)
SplitByHeaders(blocks, b, sections, current_section) ==
    IF b > Len(blocks)
    THEN IF current_section # <<>> THEN Append(sections, current_section)
         ELSE sections
    ELSE IF HeaderMatch(blocks[b])
         THEN SplitByHeaders(blocks, b + 1,
                             IF current_section # <<>>
                             THEN Append(sections, current_section) ELSE sections,
                             <<blocks[b]>>)
         ELSE SplitByHeaders(blocks, b + 1, sections,
                             Append(current_section, blocks[b]))

\* section_text.replace(f"__CODE_BLOCK_{i}__", code_block) for every i
RestoreCode(section, code_blocks) ==
    [b \in 1..Len(section) |->
        IF section[b].kind = "placeholder" THEN code_blocks[section[b].parts[1]]
        ELSE section[b]]

\* re.split(r'\n\s*\n', section_text): one paragraph for each part of each
\* block, named by the block and the part
ParagraphsOfSection(section) ==
    Flatten([b \in 1..Len(section) |->
                [p \in 1..Len(section[b].parts) |->
                    <<[id |-> <<section[b].pos, p>>,
                       words |-> <<section[b].parts[p]>>]>>]])

\* MarkdownChunker.chunk: the code blocks are taken out, the rest is split
\* by headers, and for each section the code blocks are put back before the
\* section text goes through the SemanticChunker
MarkdownChunker_chunk_fenced(text, c) ==
    LET replaced == replace_code(text)
        sections == SplitByHeaders(replaced.text_no_code, 1, <<>>, <<>>)
    IN  Flatten([s \in 1..Len(sections) |->
                    SemanticChunker_chunk(
                        ParagraphsOfSection(RestoreCode(sections[s],
                                                        replaced.code_blocks)), c)])

\* the blocks of a Markdown text: a header line, a paragraph, a fenced block
\* of one or two parts with or without a line that starts with '#'
BlockKinds ==
    {[kind |-> "header", parts |-> <<1>>, hash |-> TRUE]}
    \cup [kind : {"prose"}, parts : {<<1>>, <<2>>}, hash : {FALSE}]
    \cup [kind : {"fence"},
          parts : {<<1>>, <<2>>, <<1, 1>>, <<1, 2>>, <<2, 1>>, <<2, 2>>},
          hash : BOOLEAN]

\* the texts handed to the chunker, each block with its position
FencedTexts ==
    UNION {{[b \in 1..n |-> [kind |-> t[b].kind, pos |-> b, parts |-> t[b].parts,
                             hash |-> t[b].hash]] : t \in [1..n -> BlockKinds]} :
              n \in 0..MaxBlocks}

\* a caller hands a Markdown text with fenced code blocks to the chunker
FencedBegin ==
    /\ chk_pc = "idle"
    /\ \E sizes \in ChunkerSizes, sep \in 0..1, text \in FencedTexts :
          chk_in' = [strategy |-> "markdown_fenced", chunk_size |-> sizes.chunk_size,
                     chunk_overlap |-> sizes.chunk_overlap,
                     min_chunk_size |-> sizes.min_chunk_size,
                     sep |-> sep, text |-> text]
    /\ chk_pc' = "chunking"
    /\ chk_out' = <<>>
    /\ UNCHANGED otherThanChk

\* chunk() runs and returns its list
FencedRun ==
    /\ chk_pc = "chunking"
    /\ chk_in.strategy = "markdown_fenced"
    /\ chk_out' = MarkdownChunker_chunk_fenced(chk_in.text, chk_in)
    /\ chk_pc' = "done"
    /\ UNCHANGED chk_in
    /\ UNCHANGED otherThanChk

InitFenced ==
    /\ CoreIdle
    /\ ExtIdle

NextFenced ==
    \/ FencedBegin
    \/ FencedRun
    \/ ChunkOver

SpecFenced == InitFenced /\ [][NextFenced]_vars

(***************************************************************************)
(* Claims about the fenced code blocks of a Markdown text.                 *)
(***************************************************************************)
\* the sections the header split of the text gives
SectionsOfInput ==
    SplitByHeaders(replace_code(chk_in.text).text_no_code, 1, <<>>, <<>>)

\* a section starts at a header line or at the start of the text, never
\* inside or at a fenced block
SectionsStartAtHeaders ==
    \A s \in 1..Len(SectionsOfInput) :
        /\ \A b \in 2..Len(SectionsOfInput[s]) : SectionsOfInput[s][b].kind # "header"
        /\ SectionsOfInput[s][1].kind = "header" \/ SectionsOfInput[s][1].pos = 1

\* the parts of the block at position b, as the units a chunk holds
PartsOfBlock(b) == {<<<<b, p>>, 1>> : p \in 1..Len(chk_in.text[b].parts)}

\* the chunks that hold the whole block
ChunksHolding(b) ==
    {c \in 1..Len(chk_out) :
        PartsOfBlock(b) \subseteq {chk_out[c].content[j] :
                                      j \in 1..Len(chk_out[c].content)}}

\* C26: fenced code blocks are replaced by placeholders before the header
\* split, so a line starting with '#' inside a fenced block never starts a
\* section, and every fenced code block of the input appears whole inside
\* exactly one emitted chunk.
C26_FencedBlocksWhole ==
    ChunkDone =>
        /\ SectionsStartAtHeaders
        /\ \A b \in 1..Len(chk_in.text) :
              chk_in.text[b].kind = "fence" => Cardinality(ChunksHolding(b)) = 1

\* a paragraph of 2 tokens and a fenced block whose two parts, of 1 and 2
\* tokens, have ended in two chunks
C26_FailingInput ==
    /\ ChunkDone
    /\ Len(chk_in.text) = 2
    /\ chk_in.text[1].kind = "prose" /\ chk_in.text[1].parts = <<2>>
    /\ chk_in.text[2].kind = "fence" /\ chk_in.text[2].parts = <<1, 2>>
    /\ Len(chk_out) = 2
    /\ ChunksHolding(2) = {}

\* the part that holds: no fenced block starts a section
C26_NoSectionInsideFence == ChunkDone => SectionsStartAtHeaders

\* a fenced block with a line starting with '#' has come out whole in one chunk
C26_HashInsideFence ==
    /\ ChunkDone
    /\ \E b \in 1..Len(chk_in.text) :
          /\ chk_in.text[b].kind = "fence"
          /\ chk_in.text[b].hash
          /\ b > 1
          /\ Cardinality(ChunksHolding(b)) = 1

(***************************************************************************)
(* Claims about the counters of the DocumentIngestionResult.               *)
(***************************************************************************)
\* C27: during ingest_document successful_chunks + failed_chunks never
\* exceeds total_chunks and no chunk is counted both as successful and as
\* failed; when parsing and chunking succeeded, on return the two counters
\* add up to total_chunks, whatever embedding, per-chunk and commit failures
\* there were.
C27_Accounting ==
    /\ ing_result.successful_chunks + ing_result.failed_chunks
           <= ing_result.total_chunks
    /\ ing_counted_ok \cap ing_counted_failed = {}
    /\ (ing_pc = "returned" /\ ing_failed_step = "none") =>
           ing_result.successful_chunks + ing_result.failed_chunks
               = ing_result.total_chunks

\* one chunk, added to the session, and the commit raised
C27_FailingInput ==
    /\ ing_pc = "returned"
    /\ ing_result.total_chunks = 1
    /\ ing_result.successful_chunks = 1
    /\ ing_result.failed_chunks = 1
    /\ ing_counted_ok = {1}
    /\ ing_counted_failed = {1}

(***************************************************************************)
(* Claims about the range of the scores _combine_results computes.         *)
(***************************************************************************)
\* what _combine_results makes of the two lists of the search in progress
CombinedNow ==
    _combine_results(hyb_vector_results, hyb_keyword_results, hyb_weights)

\* 0 <= f <= 1
InUnitRange(f) == ~FGreater(FZero, f) /\ ~FGreater(f, <<1, 1>>)

\* the best candidate of a non-empty list has normalised score 1
BestHasOne(results) ==
    results # <<>> =>
        \A i \in 1..Len(results) :
            FEqual(results[i].score.value, MaxScore(results).value) =>
                FEqual(NormalisedScore(results, results[i].id), <<1, 1>>)

\* C28: for every pair of candidate lists, lists with zero or negative raw
\* scores included, _combine_results completes without error, every
\* normalised vector_score and keyword_score lies in [0, 1], the best
\* candidate of each non-empty list has normalised score 1, and every
\* combined_score lies in [0, 1].
C28_ScoresInRange ==
    HybEnded =>
        /\ CombinedNow.kind = "returned"
        /\ \A i \in 1..Len(CombinedNow.docs) :
              /\ InUnitRange(CombinedNow.docs[i].vector_score)
              /\ InUnitRange(CombinedNow.docs[i].keyword_score)
              /\ InUnitRange(CombinedNow.docs[i].score.value)
        /\ BestHasOne(hyb_vector_results)
        /\ BestHasOne(hyb_keyword_results)

\* two vector candidates at similarities 0.5 and -0.5 and no keyword
\* candidate: the second has the normalised vector_score -1
C28_FailingInput ==
    /\ HybReturned
    /\ hyb_keyword_results = <<>>
    /\ Len(hyb_vector_results) = 2
    /\ hyb_vector_results[1].score.value = <<1, 2>>
    /\ hyb_vector_results[2].score.value = <<-1, 2>>
    /\ \E i \in 1..Len(CombinedNow.docs) :
          FEqual(CombinedNow.docs[i].vector_score, <<-1, 1>>)

\* the only keyword candidate has the score 0.0 and the combination raises
C28_ZeroMaximumRaises ==
    /\ hyb_pc = "raised"
    /\ Len(hyb_keyword_results) = 1
    /\ hyb_keyword_results[1].score = PyZero
    /\ CombinedNow.kind = "raised"

\* the range holds when every raw score is positive
C28_InRangeForPositiveScores ==
    (/\ HybEnded
     /\ \A i \in 1..Len(hyb_vector_results) :
           FGreater(hyb_vector_results[i].score.value, FZero)
     /\ \A i \in 1..Len(hyb_keyword_results) :
           FGreater(hyb_keyword_results[i].score.value, FZero))
    => C28_ScoresInRange

(***************************************************************************)
(* Claims about the size of the context.                                   *)
(***************************************************************************)
\* the estimated tokens of the context: each part's characters divided by 4,
\* rounded down
ContextTokens ==
    Sum([i \in 1..Len(ctx_out) |-> estimated_tokens(ctx_out[i].chars)])

\* C29: for every ranked result list and every max_length the context
\* _build_context returns has an estimated token count of at most max_length,
\* also when the last included result was truncated.
C29_WithinBudget == ContextDone => ContextTokens <= ctx_in.max_length

\* two results of 284 characters and a budget of 130 tokens: the first is
\* whole, the second truncated, and the context has 131 estimated tokens
C29_FailingInput ==
    /\ ContextDone
    /\ ctx_in.results = <<284, 284>>
    /\ ctx_in.max_length = 130
    /\ Len(ctx_out) = 2
    /\ ctx_out[2].truncated
    /\ ContextTokens = 131

\* without a truncated part the context is within the budget
C29_WithinBudgetWhenWhole ==
    (ContextDone /\ \A i \in 1..Len(ctx_out) : ~ctx_out[i].truncated)
        => ContextTokens <= ctx_in.max_length

\* with a truncated part the context is one token over the budget
C29_OneOverWhenTruncated ==
    (ContextDone /\ \E i \in 1..Len(ctx_out) : ctx_out[i].truncated)
        => ContextTokens = ctx_in.max_length + 1

(***************************************************************************)
(* The retry of the concrete providers: complete() of AnthropicProvider,   *)
(* GoogleProvider and OpenAIProvider (llm_providers.py) and embed_text()   *)
(* of GoogleEmbeddingProvider and OpenAIEmbeddingProvider                  *)
(* (embedding_providers.py) carry                                          *)
(* @retry(stop=stop_after_attempt(3), wait=wait_exponential(...)).  The    *)
(* decorator calls the method, returns what it returns, and after an       *)
(* exception calls it again unless the stop condition holds, in which case *)
(* it raises to the caller.  The waits between attempts change no state.   *)
(***************************************************************************)
MaxAttempts == 3

\* the variant of the stop condition below that gives up one attempt earlier
StopAfterSecond(attempt_number) == attempt_number >= MaxAttempts - 1

\* stop=stop_after_attempt(3)
stop_after_attempt(attempt_number) == attempt_number >= MaxAttempts

\* the embedding providers EmbeddingProviderFactory.create_provider builds
EmbeddingProviderEnum == {"google_embedding", "openai_embedding"}

\* the providers whose method carries the decorator; the mock provider of
\* the test module is asked once
HasRetry(provider) == provider \in LLMProviderEnum \cup EmbeddingProviderEnum

\* what the decorator does after attempt attempt_number raised
AfterFailedAttempt(provider, attempt_number) ==
    IF HasRetry(provider) /\ ~stop_after_attempt(attempt_number) THEN "retry"
    ELSE "raise"

\* where a call goes when the provider at position cur of the chain has
\* raised: LLMProviderWithFallback.complete re-raises the primary's failure
\* when ENABLE_FALLBACK is off, else asks the next fallback, and raises when
\* none is left; a failure of embed_text goes to the caller
OnProviderRaise(call, cur) ==
    IF call.op = "complete" /\ (call.enable_fallback \/ cur > 1)
                            /\ cur < Len(call.chain)
    THEN [pc |-> "attempting", cur |-> cur + 1]
    ELSE [pc |-> "raised", cur |-> cur]

\* a caller enters LLMProviderWithFallback.complete
RtCompleteBegin ==
    /\ rt_pc = "idle"
    /\ rt_call' = [op |-> "complete",
                   chain |-> <<primary_provider>> \o fallback_providers,
                   enable_fallback |-> settings.ENABLE_FALLBACK]
    /\ rt_cur' = 1
    /\ rt_attempt' = 0
    /\ rt_log' = <<>>
    /\ rt_pc' = "attempting"
    /\ UNCHANGED otherThanRt

\* the ingestion batch or the search calls embed_text of the embedding
\* provider
RtEmbedBegin ==
    /\ rt_pc = "idle"
    /\ \E provider \in EmbeddingProviderEnum :
          rt_call' = [op |-> "embed_text", chain |-> <<provider>>,
                      enable_fallback |-> FALSE]
    /\ rt_cur' = 1
    /\ rt_attempt' = 0
    /\ rt_log' = <<>>
    /\ rt_pc' = "attempting"
    /\ UNCHANGED otherThanRt

\* one attempt of the provider being asked: the remote call returns or
\* raises, and the decorator returns, retries or raises
RtAttempt ==
    /\ rt_pc = "attempting"
    /\ \E ok \in BOOLEAN :
          LET provider == rt_call.chain[rt_cur]
              attempt_number == rt_attempt + 1
              next == OnProviderRaise(rt_call, rt_cur)
          IN  /\ rt_log' = Append(rt_log, [slot |-> rt_cur, ok |-> ok])
              /\ IF ok
                 THEN /\ rt_pc' = "returned"
                      /\ rt_attempt' = attempt_number
                      /\ UNCHANGED rt_cur
                 ELSE IF AfterFailedAttempt(provider, attempt_number) = "retry"
                 THEN /\ rt_attempt' = attempt_number
                      /\ UNCHANGED <<rt_pc, rt_cur>>
                 ELSE /\ rt_pc' = next.pc
                      /\ rt_cur' = next.cur
                      /\ rt_attempt' = IF next.pc = "attempting" THEN 0
                                       ELSE attempt_number
    /\ UNCHANGED rt_call
    /\ UNCHANGED otherThanRt

\* the caller has the value or the exception
RtOver ==
    /\ rt_pc \in {"returned", "raised"}
    /\ rt_pc' = "idle"
    /\ rt_call' = NoProviderCall
    /\ rt_cur' = 0
    /\ rt_attempt' = 0
    /\ rt_log' = <<>>
    /\ UNCHANGED otherThanRt

InitRetry ==
    /\ LLMConfigured
    /\ settings.ENABLE_CACHE
    /\ LLMIdle
    /\ cache_client = TRUE
    /\ EmbIdle
    /\ IngIdle
    /\ AnsIdle
    /\ ExtIdle

NextRetry ==
    \/ RtCompleteBegin
    \/ RtEmbedBegin
    \/ RtAttempt
    \/ RtOver

SpecRetry == InitRetry /\ [][NextRetry]_vars

(***************************************************************************)
(* Claims about the retry of the providers.                                *)
(***************************************************************************)
\* the attempts the provider at position slot of the chain has made
AttemptsOf(slot) == {i \in 1..Len(rt_log) : rt_log[i].slot = slot}

\* the provider at position slot has reported a failure to its caller: the
\* call has raised out of it or a later provider has been asked
ReportedFailure(slot) ==
    \/ rt_pc = "raised" /\ rt_cur = slot
    \/ \E i \in 1..Len(rt_log) : rt_log[i].slot > slot
    \/ rt_pc = "attempting" /\ rt_cur > slot

\* C30: one call of complete() of a concrete provider (Anthropic, Google,
\* OpenAI) or of embed_text() makes at most 3 attempts; it returns at the
\* first attempt that succeeds without attempting again, and reports failure
\* to its caller only after 3 consecutive failed attempts, so a fallback
\* provider is asked only after the primary's third failure.
C30_RetryThrice ==
    /\ \A i \in 1..Len(rt_log) :
          rt_log[i].ok => i = Len(rt_log) /\ rt_pc = "returned"
    /\ \A slot \in 1..Len(rt_call.chain) :
          HasRetry(rt_call.chain[slot]) =>
              /\ Cardinality(AttemptsOf(slot)) <= 3
              /\ ReportedFailure(slot) =>
                    /\ Cardinality(AttemptsOf(slot)) = 3
                    /\ \A i \in AttemptsOf(slot) : ~rt_log[i].ok
                    /\ \E first \in 1..Len(rt_log) :
                          AttemptsOf(slot) = first..(first + 2)

\* the primary failed three times and the first fallback answered at its
\* second attempt
C30_Witness ==
    /\ rt_pc = "returned"
    /\ rt_call.op = "complete"
    /\ HasRetry(rt_call.chain[1])
    /\ Len(rt_call.chain) >= 2
    /\ HasRetry(rt_call.chain[2])
    /\ rt_log = <<[slot |-> 1, ok |-> FALSE], [slot |-> 1, ok |-> FALSE],
                  [slot |-> 1, ok |-> FALSE], [slot |-> 2, ok |-> FALSE],
                  [slot |-> 2, ok |-> TRUE]>>

\* embed_text raised to its caller after its third failed attempt
C30_WitnessEmbed ==
    /\ rt_pc = "raised"
    /\ rt_call.op = "embed_text"
    /\ Len(rt_log) = 3
    /\ rt_attempt = 3

====
